---- MODULE Spec2Model ----
(***************************************************************************)
(* Model of the YouTube MCP server: the per-tenant API client              *)
(* (src/src/client.ts), the worker entry point (src/unnamed/part_001),     *)
(* the credential helpers (src/src/types/env.ts), the error classes        *)
(* (src/src/utils/errors.ts), the response formatters                      *)
(* (src/src/utils/formatters.ts) and the tool handlers (src/src/tools,     *)
(* src/unnamed/part_003).                                                  *)
(*                                                                         *)
(* The specifications of the module:                                       *)
(*   Spec        one client, built from any credentials, runs one          *)
(*               operation against the upstream API;                       *)
(*   SpecWorker  the worker's fetch handler serving several /mcp requests  *)
(*               of different tenants, interleaved;                        *)
(*   SpecList    a list operation: the upstream list response and the      *)
(*               paginated envelope built from it;                         *)
(*   SpecResource  a get-by-id or update operation and its upstream calls; *)
(*   SpecFormat  the Markdown rendering of a paginated envelope;           *)
(*   SpecError   the error formatter applied to a thrown value;            *)
(*   SpecTool    a tool handler: client call, formatting, try/catch;       *)
(*   SpecConnection  testConnection on a client built from any             *)
(*               credentials.                                              *)
(***************************************************************************)
EXTENDS Integers, Sequences, FiniteSets, TLC

VARIABLES
    credentials,   \* YouTubeClientImpl.credentials of the client under study
    op,            \* the client operation invoked on it
    pc,            \* "ready" | "awaiting" (a fetch is in flight) | "done"
    sent,          \* the HTTP requests the client has sent upstream, in order
    response,      \* the upstream response the operation last received
    result,        \* how the operation ended: a value or a thrown error
    wpc,           \* worker: per request, "new" | "serving" | "awaiting" | "responded"
    wreq,          \* worker: per request, its route and credential headers
    wclient,       \* worker: per request, the client its tool server closes over
    wtool,         \* worker: per request, the client operation its tool invoked
    wsent,         \* worker: upstream HTTP requests, tagged with the request that caused them
    wresp,         \* worker: per request, the upstream response delivered to it
    wout,          \* worker: per request, what fetch() answered
    lpc,           \* list: "start" | "fetched" | "returned"
    lop,           \* list: the list operation called
    lresp,         \* list: the parsed upstream list response
    envelope,      \* list: the envelope handed to the formatter
    rpc,           \* resource: "start" | "fetching" | "putting" | "done"
    rop,           \* resource: the get-by-id or update operation called
    rcalls,        \* resource: the upstream calls the operation has made, in order
    rresps,        \* resource: the upstream responses it has received, in order
    rresult,       \* resource: how the operation ended
    tpc,           \* tool: "start" | "awaiting" | "awaitingPut" | "returned"
    ttool,         \* tool: the tool invoked and its arguments
    toutcome,      \* tool: how the awaited client call ended
    tcaught,       \* tool: the value the handler's catch block received, if any
    tresult,       \* tool: how the handler ended: a payload, or an exception
    tcalls,        \* tool: the upstream calls issued for the invocation, in order
    tresps,        \* tool: the upstream responses received for it, in order
    fpc,           \* format: "start" | "rendered"
    fdata,         \* format: the envelope handed to formatResponse
    fentityType,   \* format: the entity type it is rendered as
    fout           \* format: the rendering

clientVars == <<credentials, op, pc, sent, response, result>>
workerVars == <<wpc, wreq, wclient, wtool, wsent, wresp, wout>>
listVars   == <<lpc, lop, lresp, envelope>>
resourceVars == <<rpc, rop, rcalls, rresps, rresult>>
toolVars   == <<tpc, ttool, toutcome, tcaught, tresult, tcalls, tresps>>
formatVars == <<fpc, fdata, fentityType, fout>>
vars       == <<credentials, op, pc, sent, response, result,
                wpc, wreq, wclient, wtool, wsent, wresp, wout,
                lpc, lop, lresp, envelope,
                rpc, rop, rcalls, rresps, rresult,
                tpc, ttool, toutcome, tcaught, tresult, tcalls, tresps,
                fpc, fdata, fentityType, fout>>

(***************************************************************************)
(* Optional values.  A TypeScript `x?: T` is Nothing (undefined) or        *)
(* Some(v).  Truthy is JavaScript truthiness of an optional string: the    *)
(* empty string is falsy, like undefined.                                  *)
(***************************************************************************)
Nothing == <<>>
Some(v) == <<v>>
IsSome(o) == o /= Nothing
Get(o) == o[1]
Truthy(o) == IsSome(o) /\ Get(o) /= ""
\* Truthiness of an optional header value kept as a character sequence
TruthyChars(o) == IsSome(o) /\ Get(o) /= <<>>
\* `${x}` of an optional string inside a template literal
TemplateString(o) == IF IsSome(o) THEN Get(o) ELSE "undefined"

(***************************************************************************)
(* Error classes, src/src/utils/errors.ts                                  *)
(***************************************************************************)
YouTubeApiError(message, statusCode) ==
    [name |-> "YouTubeApiError", message |-> message, statusCode |-> Some(statusCode),
     code |-> "YOUTUBE_ERROR", retryable |-> FALSE]

RateLimitError(message, retryAfterSeconds) ==
    [name |-> "RateLimitError", message |-> message, statusCode |-> Some(429),
     code |-> "RATE_LIMIT_EXCEEDED", retryable |-> TRUE,
     retryAfterSeconds |-> retryAfterSeconds]

AuthenticationError(message) ==
    [name |-> "AuthenticationError", message |-> message, statusCode |-> Some(401),
     code |-> "AUTHENTICATION_FAILED", retryable |-> FALSE]

ForbiddenError(message) ==
    [name |-> "ForbiddenError", message |-> message, statusCode |-> Some(403),
     code |-> "FORBIDDEN", retryable |-> FALSE]

NotFoundError(entityType, id) ==
    [name |-> "NotFoundError",
     message |-> entityType \o " with ID '" \o id \o "' not found",
     statusCode |-> Some(404), code |-> "NOT_FOUND", retryable |-> FALSE]

QuotaExceededError(message) ==
    [name |-> "QuotaExceededError", message |-> message, statusCode |-> Some(403),
     code |-> "QUOTA_EXCEEDED", retryable |-> FALSE]

\* What fetch() rejects with on a network-level failure: not a YouTubeApiError.
FetchTypeError ==
    [name |-> "TypeError", message |-> "fetch failed"]

\* What response.json() rejects with on a body that is not JSON.
JsonSyntaxError ==
    [name |-> "SyntaxError", message |-> "Unexpected token in JSON"]

\* How a call ends.  A returned value is optional: Nothing is `undefined`.
Returned(value) == [ok |-> TRUE, value |-> value]
Thrown(error) == [ok |-> FALSE, error |-> error]
NoResult == [ok |-> FALSE, error |-> [name |-> "(pending)", message |-> ""]]

(***************************************************************************)
(* Upstream HTTP responses.  A body is kept by the properties the code     *)
(* reads from it: its text, whether the text contains "quotaExceeded"      *)
(* (String.includes, client.ts:325) and what JSON.parse / response.json()  *)
(* makes of it: Nothing when the text is not JSON, otherwise the parsed    *)
(* object with the fields the client reads.                                *)
(***************************************************************************)
Json(errorMessage, message, items, nextPageToken, prevPageToken, pageInfo) ==
    [error_message |-> errorMessage, message |-> message, items |-> items,
     nextPageToken |-> nextPageToken, prevPageToken |-> prevPageToken,
     pageInfo |-> pageInfo]

PageInfo(totalResults, resultsPerPage) ==
    [totalResults |-> totalResults, resultsPerPage |-> resultsPerPage]

Body(text, includesQuotaExceeded, json) ==
    [text |-> text, includesQuotaExceeded |-> includesQuotaExceeded, json |-> json]

Bodies ==
    { Body("", FALSE, Nothing),
      Body("<html>502 Bad Gateway</html>", FALSE, Nothing),
      Body("quotaExceeded", TRUE, Nothing),
      Body("{items:[v1,v2],nextPageToken:ABC,pageInfo:{totalResults:120,resultsPerPage:2}}",
           FALSE,
           Some(Json(Nothing, Nothing, Some(<<"v1", "v2">>), Some("ABC"), Nothing,
                     Some(PageInfo(Some(120), Some(2)))))),
      Body("{kind:youtube#caption,id:c1}", FALSE,
           Some(Json(Nothing, Nothing, Nothing, Nothing, Nothing, Nothing))),
      Body("{error:{code:400,message:Invalid value}}", FALSE,
           Some(Json(Some("Invalid value"), Nothing, Nothing, Nothing, Nothing, Nothing))),
      Body("{error:{message:}}", FALSE,
           Some(Json(Some(""), Nothing, Nothing, Nothing, Nothing, Nothing))),
      Body("{message:Service unavailable}", FALSE,
           Some(Json(Nothing, Some("Service unavailable"), Nothing, Nothing, Nothing, Nothing))),
      Body("{error:{message:Quota exhausted,errors:[{reason:quotaExceeded}]}}", TRUE,
           Some(Json(Some("Quota exhausted"), Nothing, Nothing, Nothing, Nothing, Nothing))) }

Statuses == {200, 201, 204, 304, 400, 401, 403, 404, 429, 500}

\* Retry-After header values, as character sequences: absent, empty, seconds,
\* seconds with a suffix, and an HTTP date.
RetryAfters ==
    { Nothing, Some(<<>>), Some(<<"3", "0">>), Some(<<"1", "2", "s">>),
      Some(<<"W", "e", "d">>) }

\* The Retry-After header is read on a 429 only (client.ts:315).
Responses ==
    { [status |-> s, body |-> b, retryAfter |-> h] :
        s \in Statuses, b \in Bodies, h \in RetryAfters } \
    { r \in [status : Statuses, body : Bodies, retryAfter : RetryAfters] :
        r.status /= 429 /\ r.retryAfter /= Nothing }

\* Response.ok
Ok(resp) == resp.status \in 200..299

(***************************************************************************)
(* Number.parseInt(text, 10) on a character sequence: the value of the     *)
(* longest prefix of decimal digits, NaN when there is none.               *)
(***************************************************************************)
Digits == <<"0", "1", "2", "3", "4", "5", "6", "7", "8", "9">>
IsDigit(c) == \E i \in 1..Len(Digits) : Digits[i] = c
DigitValue(c) == (CHOOSE i \in 1..Len(Digits) : Digits[i] = c) - 1
NaN == [nan |-> TRUE, n |-> 0]
Num(n) == [nan |-> FALSE, n |-> n]

RECURSIVE ParseDigits(_, _)
ParseDigits(chars, acc) ==
    IF chars = <<>> \/ ~IsDigit(Head(chars)) THEN acc
    ELSE ParseDigits(Tail(chars), 10 * acc + DigitValue(Head(chars)))

parseInt(chars) ==
    IF chars = <<>> \/ ~IsDigit(Head(chars)) THEN NaN
    ELSE Num(ParseDigits(chars, 0))

(***************************************************************************)
(* The client's credential helpers, client.ts:268-290                      *)
(***************************************************************************)
API_BASE_URL == "https://www.googleapis.com/youtube/v3"
UPLOAD_URL == "https://www.googleapis.com/upload/youtube/v3/captions?uploadType=multipart&part=snippet"

\* getAuthParams: the query parameters, or the AuthenticationError it throws.
getAuthParams(c) ==
    IF Truthy(c.accessToken) THEN [threw |-> FALSE, key |-> Nothing]
    ELSE IF Truthy(c.apiKey) THEN [threw |-> FALSE, key |-> c.apiKey]
    ELSE [threw |-> TRUE,
          error |-> AuthenticationError(
              "No credentials provided. Include X-YouTube-Access-Token or X-YouTube-API-Key header.")]

getAuthHeaders(c) ==
    [ContentType |-> Some("application/json"),
     Authorization |-> IF Truthy(c.accessToken)
                       THEN Some("Bearer " \o Get(c.accessToken))
                       ELSE Nothing]

\* A request as fetch() gets it: `params` are the query parameters other than the
\* key, `body` is the kind of body ("none", "json" for a JSON.stringify text,
\* "FormData" for a multipart form).
HttpRequest(url, method, key, authorization, contentType, params, body) ==
    [url |-> url, method |-> method, key |-> key,
     Authorization |-> authorization, ContentType |-> contentType,
     params |-> params, body |-> body]

\* The params option of a call: a value per name, Nothing for undefined; numbers
\* and booleans are written as String() writes them.
NoParams == <<>>

\* filteredParams, client.ts:299-301: the entries whose value is not undefined.
filteredParams(params) ==
    [k \in { n \in DOMAIN params : IsSome(params[n]) } |-> Get(params[k])]

(***************************************************************************)
(* request(), client.ts:292-352, in its two halves: what it does before    *)
(* the fetch (throw, or send one HTTP request) and what it makes of the    *)
(* response.                                                               *)
(***************************************************************************)
\* No caller passes a `key` parameter or a headers option of its own, so the
\* spreads at client.ts:298 and :308-311 leave the credential parts as built here.
requestSend(c, endpoint, method, params, body) ==
    LET auth == getAuthParams(c) IN
    IF auth.threw THEN [threw |-> TRUE, error |-> auth.error]
    ELSE [threw |-> FALSE,
          http |-> HttpRequest(API_BASE_URL \o endpoint, method, auth.key,
                               getAuthHeaders(c).Authorization,
                               getAuthHeaders(c).ContentType,
                               filteredParams(params), body)]

\* errorJson.error?.message || errorJson.message || message   (client.ts:337-343)
ErrorMessage(resp) ==
    LET fallback == "API error: " \o ToString(resp.status) IN
    IF ~IsSome(resp.body.json) THEN fallback
    ELSE LET j == Get(resp.body.json) IN
         IF Truthy(j.error_message) THEN Get(j.error_message)
         ELSE IF Truthy(j.message) THEN Get(j.message)
         ELSE fallback

\* response.json()
responseJson(resp) ==
    IF IsSome(resp.body.json) THEN Returned(resp.body.json) ELSE Thrown(JsonSyntaxError)

requestSettle(resp) ==
    IF resp.status = 429 THEN
        Thrown(RateLimitError("Rate limit exceeded",
                              IF TruthyChars(resp.retryAfter) THEN parseInt(Get(resp.retryAfter))
                              ELSE Num(60)))
    ELSE IF resp.status = 401 THEN
        Thrown(AuthenticationError("Authentication failed. Check your OAuth token or API key."))
    ELSE IF resp.status = 403 THEN
        IF resp.body.includesQuotaExceeded
        THEN Thrown(QuotaExceededError("YouTube API quota exceeded."))
        ELSE Thrown(ForbiddenError("Access forbidden. You may lack required permissions."))
    ELSE IF resp.status = 404 THEN
        Thrown(NotFoundError("Resource", "unknown"))
    ELSE IF ~Ok(resp) THEN
        Thrown(YouTubeApiError(ErrorMessage(resp), resp.status))
    ELSE IF resp.status = 204 THEN
        Returned(Nothing)
    ELSE responseJson(resp)

(***************************************************************************)
(* toPaginatedResponse, client.ts:354-364                                  *)
(***************************************************************************)
\* items: response.items || []                                   (client.ts:356)
itemsReversed(resp) ==
    IF IsSome(resp.items)
    THEN [i \in 1..Len(Get(resp.items)) |-> Get(resp.items)[Len(Get(resp.items)) + 1 - i]]
    ELSE <<>>
itemsOrEmpty(resp) == IF IsSome(resp.items) THEN Get(resp.items) ELSE <<>>

\* count: response.items?.length || 0                            (client.ts:357)
countFromPageInfo(resp) ==
    IF IsSome(resp.pageInfo) /\ IsSome(Get(resp.pageInfo).resultsPerPage)
    THEN Get(Get(resp.pageInfo).resultsPerPage) ELSE 0
countOf(resp) == IF IsSome(resp.items) THEN Len(Get(resp.items)) ELSE 0

\* hasMore: !!response.nextPageToken                             (client.ts:360)
hasMoreFromPrevToken(resp) == Truthy(resp.prevPageToken)
hasMoreOf(resp) == Truthy(resp.nextPageToken)

toPaginatedResponse(resp) ==
    [items |-> itemsOrEmpty(resp),
     count |-> countOf(resp),
     totalResults |-> IF IsSome(resp.pageInfo) THEN Get(resp.pageInfo).totalResults
                      ELSE Nothing,
     resultsPerPage |-> IF IsSome(resp.pageInfo) THEN Get(resp.pageInfo).resultsPerPage
                        ELSE Nothing,
     hasMore |-> hasMoreOf(resp),
     nextPageToken |-> resp.nextPageToken,
     prevPageToken |-> resp.prevPageToken]

\* The operations that return a bare array (listCaptions client.ts:909,
\* listChannelSections :1048, listI18nLanguages :1116, ...) use itemsOrEmpty alone.

\* Reading a property of `undefined` (request() returned nothing on a 204)
UndefinedTypeError ==
    [name |-> "TypeError", message |-> "Cannot read properties of undefined"]

(***************************************************************************)
(* Client operations.  An operation is its name and the arguments that     *)
(* decide its upstream call.                                               *)
(***************************************************************************)
Operation(name, captionData) == [name |-> name, captionData |-> captionData]

Operations ==
    { Operation(n, Nothing) :
        n \in {"listVideos", "deleteVideo", "listCaptions", "downloadCaption"} }
    \cup { Operation("insertCaption", Some("WEBVTT")) }
    \cup { Operation("updateCaption", d) : d \in {Nothing, Some(""), Some("WEBVTT")} }

NoOperation == Operation("(none)", Nothing)

\* insertCaption and updateCaption with new media call fetch themselves on the
\* upload endpoint (client.ts:945-954, 978-987).
UsesUpload(o) ==
    \/ o.name = "insertCaption"
    \/ o.name = "updateCaption" /\ Truthy(o.captionData)

\* The fetch of insertCaption / updateCaption-with-media: the Authorization header
\* is the template `Bearer ${this.credentials.accessToken}`, whatever the token is.
uploadSend(c, method) ==
    [threw |-> FALSE,
     http |-> HttpRequest(UPLOAD_URL, method, Nothing,
                          Some("Bearer " \o TemplateString(c.accessToken)), Nothing,
                          NoParams, "FormData")]

\* The fetch of downloadCaption (client.ts:917-922): getAuthHeaders only.
downloadSend(c) ==
    [threw |-> FALSE,
     http |-> HttpRequest(API_BASE_URL \o "/captions/c1", "GET", Nothing,
                          getAuthHeaders(c).Authorization, getAuthHeaders(c).ContentType,
                          NoParams, "none")]

\* What the operation does up to its first await of an upstream call.
FirstCallAlwaysUploading(o, c) ==
    CASE o.name = "listVideos"      ->
            requestSend(c, "/videos", "GET",
                        [part |-> Some("snippet,contentDetails,statistics"),
                         id |-> Some("v1")], "none")
      [] o.name = "deleteVideo"     ->
            requestSend(c, "/videos", "DELETE", [id |-> Some("v1")], "none")
      [] o.name = "listCaptions"    ->
            requestSend(c, "/captions", "GET",
                        [part |-> Some("snippet"), videoId |-> Some("v1")], "none")
      [] o.name = "downloadCaption" -> downloadSend(c)
      [] o.name = "insertCaption"   -> uploadSend(c, "POST")
      [] o.name = "updateCaption"   -> uploadSend(c, "PUT")
FirstCall(o, c) ==
    CASE o.name = "listVideos"      ->
            requestSend(c, "/videos", "GET",
                        [part |-> Some("snippet,contentDetails,statistics"),
                         id |-> Some("v1")], "none")
      [] o.name = "deleteVideo"     ->
            requestSend(c, "/videos", "DELETE", [id |-> Some("v1")], "none")
      [] o.name = "listCaptions"    ->
            requestSend(c, "/captions", "GET",
                        [part |-> Some("snippet"), videoId |-> Some("v1")], "none")
      [] o.name = "downloadCaption" -> downloadSend(c)
      [] o.name = "insertCaption"   -> uploadSend(c, "POST")
      [] o.name = "updateCaption"   -> IF Truthy(o.captionData)
                                       THEN uploadSend(c, "PUT")
                                       ELSE requestSend(c, "/captions", "PUT",
                                                        [part |-> Some("snippet")], "json")

\* downloadCaption after the fetch, client.ts:924-928
downloadSettle(resp) ==
    IF ~Ok(resp)
    THEN Thrown(YouTubeApiError("Failed to download caption: " \o ToString(resp.status),
                                resp.status))
    ELSE Returned(Some(resp.body.text))

\* insertCaption / updateCaption-with-media after the fetch, client.ts:956-961, 989-994
uploadSettleUnchecked(resp, what) ==
    responseJson(resp)
uploadSettle(resp, what) ==
    IF ~Ok(resp)
    THEN Thrown(YouTubeApiError("Failed to " \o what \o " caption: " \o resp.body.text,
                                resp.status))
    ELSE responseJson(resp)

\* A list operation reads `response.items` of what request() returned: a
\* TypeError when request() returned undefined (a 204).
listSettle(r) ==
    IF ~r.ok THEN r
    ELSE IF ~IsSome(r.value) THEN Thrown(UndefinedTypeError)
    ELSE r

\* What the operation makes of the upstream response.
Settle(o, resp) ==
    CASE o.name = "listVideos"      -> LET r == listSettle(requestSettle(resp)) IN
                                       IF r.ok
                                       THEN Returned(Some(toPaginatedResponse(Get(r.value))))
                                       ELSE r
      [] o.name = "deleteVideo"     -> LET r == requestSettle(resp) IN
                                       IF r.ok THEN Returned(Nothing) ELSE r
      [] o.name = "listCaptions"    -> LET r == listSettle(requestSettle(resp)) IN
                                       IF r.ok
                                       THEN Returned(Some(itemsOrEmpty(Get(r.value))))
                                       ELSE r
      [] o.name = "downloadCaption" -> downloadSettle(resp)
      [] o.name = "insertCaption"   -> uploadSettle(resp, "insert")
      [] o.name = "updateCaption"   -> IF Truthy(o.captionData)
                                       THEN uploadSettle(resp, "update")
                                       ELSE requestSettle(resp)

(***************************************************************************)
(* Spec: one client, one operation.                                        *)
(***************************************************************************)
\* TenantCredentials, env.ts:19-25; a client can be built from any of them
\* (createYouTubeClient, client.ts:1245).
CredentialValues(secret) == {Nothing, Some(""), Some(secret)}
TenantCredentials(accessToken, apiKey) ==
    [accessToken |-> accessToken, apiKey |-> apiKey]
AllCredentials ==
    { TenantCredentials(t, k) :
        t \in CredentialValues("ya29.token"), k \in CredentialValues("AIza.key") }

WorkerIdle ==
    /\ wpc = <<>> /\ wreq = <<>> /\ wclient = <<>> /\ wtool = <<>>
    /\ wsent = {} /\ wresp = <<>> /\ wout = <<>>

ListIdle ==
    /\ lpc = "idle" /\ lop = "(none)" /\ lresp = Nothing /\ envelope = Nothing

ResourceIdle ==
    /\ rpc = "idle" /\ rop = [name |-> "(none)"] /\ rcalls = <<>>
    /\ rresps = <<>> /\ rresult = NoResult

ToolIdle ==
    /\ tpc = "idle" /\ ttool = [name |-> "(none)"] /\ toutcome = Nothing
    /\ tcaught = Nothing /\ tresult = Nothing
    /\ tcalls = <<>> /\ tresps = <<>>

FormatIdle ==
    /\ fpc = "idle" /\ fdata = Nothing /\ fentityType = "(none)" /\ fout = Nothing

LaterIdle == ResourceIdle /\ ToolIdle /\ FormatIdle

ClientIdle ==
    /\ credentials = TenantCredentials(Nothing, Nothing)
    /\ op = NoOperation /\ pc = "idle" /\ sent = <<>>
    /\ response = Nothing /\ result = NoResult

Init ==
    /\ credentials \in AllCredentials
    /\ op = NoOperation
    /\ pc = "ready"
    /\ sent = <<>>
    /\ response = Nothing
    /\ result = NoResult
    /\ WorkerIdle
    /\ ListIdle
    /\ LaterIdle

\* The caller invokes an operation; it runs to its first await.
Invoke(o) ==
    /\ pc = "ready"
    /\ op' = o
    /\ LET first == FirstCall(o, credentials) IN
       IF first.threw
       THEN /\ result' = Thrown(first.error)
            /\ pc' = "done"
            /\ sent' = sent
       ELSE /\ sent' = Append(sent, first.http)
            /\ pc' = "awaiting"
            /\ result' = result
    /\ UNCHANGED <<credentials, response>>
    /\ UNCHANGED workerVars
    /\ UNCHANGED listVars
    /\ UNCHANGED resourceVars
    /\ UNCHANGED toolVars
    /\ UNCHANGED formatVars

\* The awaited fetch resolves with an upstream response.
FetchResolves(resp) ==
    /\ pc = "awaiting"
    /\ response' = Some(resp)
    /\ result' = Settle(op, resp)
    /\ pc' = "done"
    /\ UNCHANGED <<credentials, op, sent>>
    /\ UNCHANGED workerVars
    /\ UNCHANGED listVars
    /\ UNCHANGED resourceVars
    /\ UNCHANGED toolVars
    /\ UNCHANGED formatVars

\* The awaited fetch rejects: a network-level failure.  No operation modelled
\* here has a try/catch around it, so the rejection is the operation's outcome.
FetchRejects ==
    /\ pc = "awaiting"
    /\ result' = Thrown(FetchTypeError)
    /\ pc' = "done"
    /\ UNCHANGED <<credentials, op, sent, response>>
    /\ UNCHANGED workerVars
    /\ UNCHANGED listVars
    /\ UNCHANGED resourceVars
    /\ UNCHANGED toolVars
    /\ UNCHANGED formatVars

Next ==
    \/ \E o \in Operations : Invoke(o)
    \/ \E resp \in Responses : FetchResolves(resp)
    \/ FetchRejects

Spec == Init /\ [][Next]_vars

(***************************************************************************)
(* Claims about the client (checked under Spec)                            *)
(***************************************************************************)
\* The operation's upstream call goes through request().
ViaRequest(o) == ~UsesUpload(o) /\ o.name /= "downloadCaption"
\* The operation returns what request() returned, untouched.
ReturnsRequestOutcome(o) == o.name = "updateCaption" /\ ~Truthy(o.captionData)

Is2xx(status) == status \in 200..299
ErrorIs(r, name) == ~r.ok /\ r.error.name = name
\* The error's retryable flag; a raw TypeError or SyntaxError has none.
Retryable(error) == "retryable" \in DOMAIN error /\ error.retryable

\* The 429/401/403/404 rows of the status mapping, for a response and an outcome.
MappedErrors(resp, r) ==
    /\ resp.status = 429 => ErrorIs(r, "RateLimitError") /\ Retryable(r.error)
    /\ resp.status = 401 => ErrorIs(r, "AuthenticationError")
    /\ resp.status = 403 =>
         IF resp.body.includesQuotaExceeded
         THEN ErrorIs(r, "QuotaExceededError") ELSE ErrorIs(r, "ForbiddenError")
    /\ resp.status = 404 => ErrorIs(r, "NotFoundError")

\* C1: every response handled by request() is mapped by its status alone (and the
\* body on a 403): 429 -> retryable rate-limit error, 401 -> authentication error,
\* 403 -> quota-exceeded or forbidden, 404 -> not-found, 204 -> empty success, any
\* other non-2xx -> generic error with the upstream status and message, any other
\* 2xx -> the parsed body; only the rate-limit error is retryable.
C1_StatusMappingTotal ==
    (pc = "done" /\ IsSome(response) /\ ViaRequest(op)) =>
        LET resp == Get(response) IN
        /\ MappedErrors(resp, result)
        /\ (~Is2xx(resp.status) /\ resp.status \notin {429, 401, 403, 404}) =>
              /\ ErrorIs(result, "YouTubeApiError")
              /\ result.error.statusCode = Some(resp.status)
              /\ result.error.message = ErrorMessage(resp)
        /\ (resp.status = 204 /\ (ReturnsRequestOutcome(op) \/ op.name = "deleteVideo")) =>
              result = Returned(Nothing)
        /\ (Is2xx(resp.status) /\ resp.status /= 204 /\ ReturnsRequestOutcome(op)) =>
              /\ IsSome(resp.body.json)
              /\ result = Returned(resp.body.json)
        /\ ~result.ok => (result.error.name = "RateLimitError" <=> Retryable(result.error))

\* C2: every upstream call of every operation, caption download and the multipart
\* caption insert and update included, maps 429, 401, 403 and 404 the same way.
C2_AllCallsMapStatus ==
    (pc = "done" /\ IsSome(response)) => MappedErrors(Get(response), result)

TaxonomyKinds ==
    { "AuthenticationError", "ForbiddenError", "QuotaExceededError", "NotFoundError",
      "RateLimitError", "ValidationError", "YouTubeApiError" }

\* C3: every operation returns its value or fails with one of the taxonomy's error
\* kinds, however the upstream call ends (network failure, unparseable 2xx body).
C3_OnlyTaxonomyErrors ==
    pc = "done" => (result.ok \/ result.error.name \in TaxonomyKinds)

\* C4: with neither an access token nor an API key, every operation fails with an
\* authentication error and sends nothing upstream.
C4_NoCredentialsNoRequest ==
    (credentials.accessToken = Nothing /\ credentials.apiKey = Nothing) =>
        /\ sent = <<>>
        /\ pc = "done" => ErrorIs(result, "AuthenticationError")

\* C6: every upstream request carries exactly one credential: the bearer header iff
\* an access token is present, the key parameter iff there is no access token and
\* there is an API key; never both, and an API-key-only caller's key on every request.
C6_ExactlyOneCredential ==
    \A i \in 1..Len(sent) :
        LET h == sent[i] IN
        /\ IsSome(h.Authorization) <=> Truthy(credentials.accessToken)
        /\ IsSome(h.Authorization) =>
              h.Authorization = Some("Bearer " \o Get(credentials.accessToken))
        /\ IsSome(h.key) <=>
              (~Truthy(credentials.accessToken) /\ Truthy(credentials.apiKey))
        /\ IsSome(h.key) => h.key = credentials.apiKey
        /\ IsSome(h.Authorization) /= IsSome(h.key)

\* C14: on a 429 the rate-limit error's retry-after is always a defined number of
\* seconds: the Retry-After header parsed as a base-10 integer when the header is
\* present, 60 when it is absent.
C14_RetryAfterDefined ==
    (pc = "done" /\ IsSome(response) /\ Get(response).status = 429
        /\ ErrorIs(result, "RateLimitError")) =>
        LET header == Get(response).retryAfter
            seconds == result.error.retryAfterSeconds
        IN
        /\ ~seconds.nan
        /\ IsSome(header) => seconds = parseInt(Get(header))
        /\ ~IsSome(header) => seconds = Num(60)

(***************************************************************************)
(* SpecWorker: the worker's fetch handler (src/unnamed/part_001:119-255)   *)
(* serving MaxReqs inbound requests, each of its own tenant, interleaved   *)
(* at their awaits.                                                        *)
(***************************************************************************)
MaxReqs == 2
Reqs == 1..MaxReqs

\* The secrets of the tenant behind request r.
TokenOf(r) == "ya29.tenant" \o ToString(r)
KeyOf(r) == "AIza.tenant" \o ToString(r)

InboundRequest(path, method, accessTokenHeader, apiKeyHeader) ==
    [path |-> path, method |-> method,
     XYouTubeAccessToken |-> accessTokenHeader, XYouTubeAPIKey |-> apiKeyHeader]

NoRequest == InboundRequest("(none)", "(none)", Nothing, Nothing)

\* What request r can be: a POST to /mcp with each header absent, empty or set,
\* or a request to another route (which reads no header).
InboundRequests(r) ==
    { InboundRequest("/mcp", "POST", t, k) :
        t \in CredentialValues(TokenOf(r)), k \in CredentialValues(KeyOf(r)) }
    \cup { InboundRequest("/mcp", "GET", Some(TokenOf(r)), Nothing),
           InboundRequest("/health", "GET", Nothing, Nothing),
           InboundRequest("/sse", "GET", Nothing, Some(KeyOf(r))) }

\* parseTenantCredentials, env.ts:30-37: `headers.get(name) || undefined`
parseTenantCredentials(req) ==
    TenantCredentials(
        IF Truthy(req.XYouTubeAccessToken) THEN req.XYouTubeAccessToken ELSE Nothing,
        IF Truthy(req.XYouTubeAPIKey) THEN req.XYouTubeAPIKey ELSE Nothing)

\* validateCredentials returns normally (env.ts:42-48): TRUE; throws: FALSE.
validateCredentialsNeverThrows(c) == TRUE
validateCredentials(c) == ~(~Truthy(c.accessToken) /\ ~Truthy(c.apiKey))

\* createYouTubeClient / the constructor (client.ts:260-262, 1245-1247): the client
\* is the credentials it was built with.
createYouTubeClient(c) == c

\* createStatelessServer (part_001:69-113): a fresh server whose tools close over a
\* fresh client; `clients` maps each request to the client its server uses.
createStatelessServerShared(clients, r, c) ==
    [q \in DOMAIN clients |-> Some(createYouTubeClient(c))]
createStatelessServer(clients, r, c) ==
    [clients EXCEPT ![r] = Some(createYouTubeClient(c))]

WorkerResponse(status, kind, payload) ==
    [status |-> status, kind |-> kind, payload |-> payload]

\* A tool handler's try/catch (e.g. youtube_list_videos, part_003:354-361): the
\* operation's value as a payload, or the caught error as an isError payload.
ToolPayload(r) == [isError |-> ~r.ok, outcome |-> r]

\* The streamable-HTTP handler's answer carrying a tool's payload.
McpResponse(r) == WorkerResponse(200, "mcp", Some(ToolPayload(r)))

\* The operations the tools of this specification invoke.
WorkerOperations ==
    { o \in Operations : o.name \in {"listVideos", "downloadCaption", "insertCaption"} }

WorkerResponses ==
    { resp \in Responses :
        \/ resp.status = 200 /\ IsSome(resp.body.json) /\ IsSome(Get(resp.body.json).items)
        \/ resp.status = 403 /\ resp.body.text = "quotaExceeded"
        \/ resp.status = 429 /\ resp.body.text = "" /\ resp.retryAfter = Nothing }

InitWorker ==
    /\ wpc = [r \in Reqs |-> "new"]
    /\ wreq = [r \in Reqs |-> NoRequest]
    /\ wclient = [r \in Reqs |-> Nothing]
    /\ wtool = [r \in Reqs |-> NoOperation]
    /\ wsent = {}
    /\ wresp = [r \in Reqs |-> Nothing]
    /\ wout = [r \in Reqs |-> Nothing]
    /\ ClientIdle
    /\ ListIdle
    /\ LaterIdle

\* fetch(request): runs without an await up to the MCP handler.
Fetch(r, req) ==
    /\ wpc[r] = "new"
    /\ wreq' = [wreq EXCEPT ![r] = req]
    /\ IF req.path = "/health" THEN
            /\ wout' = [wout EXCEPT ![r] = Some(WorkerResponse(200, "health", Nothing))]
            /\ wpc' = [wpc EXCEPT ![r] = "responded"]
            /\ wclient' = wclient
       ELSE IF req.path = "/mcp" /\ req.method = "POST" THEN
            LET c == parseTenantCredentials(req) IN
            IF ~validateCredentials(c) THEN
                /\ wout' = [wout EXCEPT ![r] = Some(WorkerResponse(401, "Unauthorized", Nothing))]
                /\ wpc' = [wpc EXCEPT ![r] = "responded"]
                /\ wclient' = wclient
            ELSE
                /\ wclient' = createStatelessServer(wclient, r, c)
                /\ wpc' = [wpc EXCEPT ![r] = "serving"]
                /\ wout' = wout
       ELSE IF req.path = "/sse" THEN
            /\ wout' = [wout EXCEPT ![r] = Some(WorkerResponse(501, "sse", Nothing))]
            /\ wpc' = [wpc EXCEPT ![r] = "responded"]
            /\ wclient' = wclient
       ELSE
            /\ wout' = [wout EXCEPT ![r] = Some(WorkerResponse(200, "info", Nothing))]
            /\ wpc' = [wpc EXCEPT ![r] = "responded"]
            /\ wclient' = wclient
    /\ UNCHANGED <<wtool, wsent, wresp>>
    /\ UNCHANGED clientVars
    /\ UNCHANGED listVars
    /\ UNCHANGED resourceVars
    /\ UNCHANGED toolVars
    /\ UNCHANGED formatVars

\* The MCP handler dispatches the request's tool call; the tool invokes its client
\* operation, which runs to its first await.
ToolCall(r, o) ==
    /\ wpc[r] = "serving"
    /\ wtool' = [wtool EXCEPT ![r] = o]
    /\ LET first == FirstCall(o, Get(wclient[r])) IN
       IF first.threw
       THEN /\ wout' = [wout EXCEPT ![r] = Some(McpResponse(Thrown(first.error)))]
            /\ wpc' = [wpc EXCEPT ![r] = "responded"]
            /\ wsent' = wsent
       ELSE /\ wsent' = wsent \cup {[req |-> r, http |-> first.http]}
            /\ wpc' = [wpc EXCEPT ![r] = "awaiting"]
            /\ wout' = wout
    /\ UNCHANGED <<wreq, wclient, wresp>>
    /\ UNCHANGED clientVars
    /\ UNCHANGED listVars
    /\ UNCHANGED resourceVars
    /\ UNCHANGED toolVars
    /\ UNCHANGED formatVars

\* The upstream answers the call of request r.
UpstreamResolves(r, resp) ==
    /\ wpc[r] = "awaiting"
    /\ wresp' = [wresp EXCEPT ![r] = Some(resp)]
    /\ wout' = [wout EXCEPT ![r] = Some(McpResponse(Settle(wtool[r], resp)))]
    /\ wpc' = [wpc EXCEPT ![r] = "responded"]
    /\ UNCHANGED <<wreq, wclient, wtool, wsent>>
    /\ UNCHANGED clientVars
    /\ UNCHANGED listVars
    /\ UNCHANGED resourceVars
    /\ UNCHANGED toolVars
    /\ UNCHANGED formatVars

\* The call of request r fails at the network level.
UpstreamRejects(r) ==
    /\ wpc[r] = "awaiting"
    /\ wout' = [wout EXCEPT ![r] = Some(McpResponse(Thrown(FetchTypeError)))]
    /\ wpc' = [wpc EXCEPT ![r] = "responded"]
    /\ UNCHANGED <<wreq, wclient, wtool, wsent, wresp>>
    /\ UNCHANGED clientVars
    /\ UNCHANGED listVars
    /\ UNCHANGED resourceVars
    /\ UNCHANGED toolVars
    /\ UNCHANGED formatVars

NextWorker ==
    \/ \E r \in Reqs : \E req \in InboundRequests(r) : Fetch(r, req)
    \/ \E r \in Reqs : \E o \in WorkerOperations : ToolCall(r, o)
    \/ \E r \in Reqs : \E resp \in WorkerResponses : UpstreamResolves(r, resp)
    \/ \E r \in Reqs : UpstreamRejects(r)

SpecWorker == InitWorker /\ [][NextWorker]_vars

\* The request carries neither credential: each header absent or empty.
CarriesNoCredential(req) ==
    ~Truthy(req.XYouTubeAccessToken) /\ ~Truthy(req.XYouTubeAPIKey)

CallsOf(r) == { c \in wsent : c.req = r }

\* C5: a POST to /mcp carrying neither credential is answered 401 before any tool
\* server or client exists: no client is created for it, no operation runs and no
\* upstream call is made.
C5_NoCredentialsRejected ==
    \A r \in Reqs :
        (wpc[r] /= "new" /\ wreq[r].path = "/mcp" /\ wreq[r].method = "POST"
            /\ CarriesNoCredential(wreq[r])) =>
        /\ wpc[r] = "responded"
        /\ wout[r] = Some(WorkerResponse(401, "Unauthorized", Nothing))
        /\ wclient[r] = Nothing
        /\ wtool[r] = NoOperation
        /\ CallsOf(r) = {}

\* Reached: one request with both headers absent and one with an empty header
\* have been answered 401 while another request is being served.
C5_Witness ==
    \E r \in Reqs : \E q \in Reqs \ {r} :
        /\ wreq[r].path = "/mcp" /\ wreq[r].method = "POST"
        /\ wreq[r].XYouTubeAccessToken = Some("") /\ wreq[r].XYouTubeAPIKey = Nothing
        /\ wpc[r] = "responded" /\ Get(wout[r]).status = 401
        /\ wpc[q] = "awaiting"

\* C7: with requests of different tenants interleaved, every upstream call carries
\* only the credentials of the request that caused it, each request's client holds
\* that request's credentials, and its answer is made from the response to its own
\* call.
C7_TenantIsolation ==
    /\ \A r \in Reqs :
          /\ IsSome(wclient[r]) =>
                /\ wpc[r] /= "new"
                /\ wclient[r] = Some(parseTenantCredentials(wreq[r]))
          /\ (wpc[r] = "responded" /\ IsSome(wresp[r])) =>
                wout[r] = Some(McpResponse(Settle(wtool[r], Get(wresp[r]))))
    /\ \A c \in wsent :
          LET own == parseTenantCredentials(wreq[c.req]) IN
          /\ c.http.Authorization \in
                {Nothing, Some("Bearer " \o TemplateString(own.accessToken))}
          /\ c.http.key \in {Nothing, own.apiKey}
          /\ \A q \in Reqs \ {c.req} :
                /\ c.http.Authorization /= Some("Bearer " \o TokenOf(q))
                /\ c.http.key /= Some(KeyOf(q))

\* Reached: two requests with different credentials, the first answered from its
\* own upstream call while the second's call, made later, is still in flight.
C7_Witness ==
    \E r \in Reqs : \E q \in Reqs \ {r} :
        /\ wpc[r] = "responded" /\ IsSome(wresp[r])
        /\ wpc[q] = "awaiting"
        /\ \E c \in CallsOf(r) : c.http.Authorization = Some("Bearer " \o TokenOf(r))
        /\ \E c \in CallsOf(q) : c.http.key = Some(KeyOf(q))

(***************************************************************************)
(* SpecList: a list operation succeeds upstream; the client (and, for the  *)
(* operations that return a bare array, the tool handler) builds the       *)
(* envelope handed to formatResponse.                                      *)
(***************************************************************************)
MaxItems == 2
DefaultMaxResults == 25
ItemIds == {"a", "b"}

\* Client operations that end in `return this.toPaginatedResponse(response)`
\* (client.ts:404, 518, 741, 1034, 1173, 1221, ...).
NormalizedListOperations ==
    {"listVideos", "listChannels", "listCommentThreads", "listActivities",
     "listMembers", "search"}

\* Client operations that return `response.items || []`, wrapped by their tool
\* handler as { items, count: items.length, hasMore: false }.
BareListOperations ==
    {"listCaptions", "listChannelSections", "listI18nLanguages", "listI18nRegions",
     "listVideoCategories", "listVideoAbuseReportReasons", "listMembershipsLevels"}

ListOperations == NormalizedListOperations \cup BareListOperations

SeqsUpTo(S, n) == UNION { [1..k -> S] : k \in 0..n }

\* A full default page: DefaultMaxResults distinct items.
FullPage == [i \in 1..DefaultMaxResults |-> "v" \o ToString(i)]

\* YouTubeListResponse<T>, client.ts:1229-1239, as parsed from a 2xx body.
ListResponses ==
    { Json(Nothing, Nothing, items, next, prev, info) :
        items \in {Nothing} \cup { Some(q) : q \in SeqsUpTo(ItemIds, MaxItems) \cup {FullPage} },
        next \in {Nothing, Some(""), Some("ABC")},
        prev \in {Nothing, Some("PREV")},
        info \in { Nothing, Some(PageInfo(Nothing, Nothing)),
                   Some(PageInfo(Some(120), Some(DefaultMaxResults))),
                   Some(PageInfo(Some(0), Some(5))) } }

\* The tool handlers' envelope literal (categories.ts:35, 62; i18n.ts:33, 60;
\* channel-sections.ts:35; playlist-items.ts:354; part_002:78): the fields it
\* does not set are absent.
toolEnvelope(items) ==
    [items |-> items, count |-> Len(items), totalResults |-> Nothing,
     resultsPerPage |-> Nothing, hasMore |-> FALSE, nextPageToken |-> Nothing,
     prevPageToken |-> Nothing]

\* The envelope a list operation's tool hands to formatResponse.
EnvelopeOf(o, resp) ==
    IF o \in NormalizedListOperations
    THEN toPaginatedResponse(resp)
    ELSE toolEnvelope(itemsOrEmpty(resp))

InitList ==
    /\ lpc = "start"
    /\ lop = "(none)"
    /\ lresp = Nothing
    /\ envelope = Nothing
    /\ ClientIdle
    /\ WorkerIdle
    /\ LaterIdle

\* A list tool is invoked and its operation awaits request().
ListCall(o) ==
    /\ lpc = "start"
    /\ lop' = o
    /\ lpc' = "awaiting"
    /\ UNCHANGED <<lresp, envelope>>
    /\ UNCHANGED clientVars
    /\ UNCHANGED workerVars
    /\ UNCHANGED resourceVars
    /\ UNCHANGED toolVars
    /\ UNCHANGED formatVars

\* request() returns the parsed 2xx body; the operation and its tool handler run on
\* to the envelope.
ListReturns(resp) ==
    /\ lpc = "awaiting"
    /\ lresp' = Some(resp)
    /\ envelope' = Some(EnvelopeOf(lop, resp))
    /\ lpc' = "returned"
    /\ UNCHANGED lop
    /\ UNCHANGED clientVars
    /\ UNCHANGED workerVars
    /\ UNCHANGED resourceVars
    /\ UNCHANGED toolVars
    /\ UNCHANGED formatVars

NextList ==
    \/ \E o \in ListOperations : ListCall(o)
    \/ \E resp \in ListResponses : ListReturns(resp)

SpecList == InitList /\ [][NextList]_vars

\* C8: in every envelope a list operation returns, hasMore is true iff the envelope
\* carries a continuation token (a non-empty nextPageToken).
C8_HasMoreIffToken ==
    lpc = "returned" =>
        (Get(envelope).hasMore <=> Truthy(Get(envelope).nextPageToken))

\* Reached: a normalized envelope whose upstream response had a next-page token and
\* no previous-page token; hasMore is set.
C8_Witness ==
    /\ lpc = "returned" /\ lop \in NormalizedListOperations
    /\ Get(lresp).nextPageToken = Some("ABC") /\ Get(lresp).prevPageToken = Nothing
    /\ Get(envelope).hasMore

\* C9: in every envelope a list operation returns, count is the number of items;
\* it is 0, with no items, when upstream sent no items field.
C9_CountIsLength ==
    lpc = "returned" =>
        /\ Get(envelope).count = Len(Get(envelope).items)
        /\ Get(lresp).items = Nothing =>
              (Get(envelope).count = 0 /\ Get(envelope).items = <<>>)

\* Reached: upstream sent pageInfo but no items field; the envelope counts 0.
C9_Witness ==
    /\ lpc = "returned" /\ lop \in NormalizedListOperations
    /\ Get(lresp).items = Nothing
    /\ Get(lresp).pageInfo = Some(PageInfo(Some(120), Some(DefaultMaxResults)))
    /\ Get(envelope).count = 0

\* C10: the normalizer maps the upstream list response field by field: the items in
\* upstream order (none when upstream has none), and totalResults, resultsPerPage,
\* nextPageToken and prevPageToken as upstream sent them, absent when omitted.
C10_PureMapping ==
    (lpc = "returned" /\ lop \in NormalizedListOperations) =>
        LET up == Get(lresp)
            env == Get(envelope) IN
        /\ IsSome(up.items) => env.items = Get(up.items)
        /\ ~IsSome(up.items) => env.items = <<>>
        /\ IsSome(up.pageInfo) =>
              /\ env.totalResults = Get(up.pageInfo).totalResults
              /\ env.resultsPerPage = Get(up.pageInfo).resultsPerPage
        /\ ~IsSome(up.pageInfo) =>
              (env.totalResults = Nothing /\ env.resultsPerPage = Nothing)
        /\ env.nextPageToken = up.nextPageToken
        /\ env.prevPageToken = up.prevPageToken

\* Reached: the example, 25 items with nextPageToken "ABC" and totalResults 120
\* normalize to count 25, totalResults 120, hasMore, nextPageToken "ABC".
C10_Witness ==
    /\ lpc = "returned" /\ lop \in NormalizedListOperations
    /\ Get(lresp).items = Some(FullPage)
    /\ Get(lresp).nextPageToken = Some("ABC")
    /\ Get(lresp).pageInfo = Some(PageInfo(Some(120), Some(DefaultMaxResults)))
    /\ Get(envelope).count = 25
    /\ Get(envelope).totalResults = Some(120)
    /\ Get(envelope).hasMore
    /\ Get(envelope).nextPageToken = Some("ABC")
    /\ Get(envelope).items[1] = "v1" /\ Get(envelope).items[25] = "v25"

(***************************************************************************)
(* SpecResource: the get-by-id and update operations of videos, channels,  *)
(* playlists and comment threads (client.ts:407-447, 503-550, 587-639,     *)
(* 744-755).  The client has credentials, so request() sends every call.   *)
(***************************************************************************)
\* Video / Channel / Playlist / CommentThread (part_004:69-82, 164-177, 249-258,
\* 348-354) by the parts the operations read or write; a part that was not
\* returned is Nothing.
Resource(kind, id, snippet, status, brandingSettings) ==
    [kind |-> kind, id |-> id, snippet |-> snippet, status |-> status,
     brandingSettings |-> brandingSettings]

\* VideoSnippet, part_004:84-97: the fields updateVideo writes, and two it does not.
CurrentVideoSnippet ==
    [title |-> Some("Old title"), description |-> Some("Old description"),
     tags |-> Some(<<"old">>), categoryId |-> Some("22"), defaultLanguage |-> Nothing,
     channelTitle |-> Some("Channel"), defaultAudioLanguage |-> Some("en")]

\* VideoStatus, part_004:114-125
CurrentVideoStatus ==
    [privacyStatus |-> Some("public"), embeddable |-> Some(TRUE),
     publicStatsViewable |-> Some(TRUE), madeForKids |-> Some(FALSE),
     license |-> Some("youtube"), uploadStatus |-> Some("processed")]

\* PlaylistSnippet / PlaylistStatus, part_004:260-274
CurrentPlaylistSnippet ==
    [title |-> Some("Old list"), description |-> Some(""), defaultLanguage |-> Some("en"),
     channelTitle |-> Some("Channel")]

CurrentPlaylistStatus ==
    [privacyStatus |-> Some("public"), podcastStatus |-> Nothing]

\* ChannelBrandingSettings, part_004:218-231
CurrentBrandingSettings ==
    [channel |-> [title |-> Some("Channel"), description |-> Some("Old description"),
                  keywords |-> Some("old keywords"), defaultLanguage |-> Some("en"),
                  country |-> Some("US"), unsubscribedTrailer |-> Nothing,
                  trackingAnalyticsAccountId |-> Nothing]]

ResourceIds == {"abc123", "xyz789"}

\* What upstream can hold under an id, per resource kind: with every requested
\* part, without its status part, and with no part at all.
StoredVideos(id) ==
    { Resource("youtube#video", id, Some(CurrentVideoSnippet), Some(CurrentVideoStatus), Nothing),
      Resource("youtube#video", id, Some(CurrentVideoSnippet), Nothing, Nothing),
      Resource("youtube#video", id, Nothing, Nothing, Nothing) }

StoredPlaylists(id) ==
    { Resource("youtube#playlist", id, Some(CurrentPlaylistSnippet),
               Some(CurrentPlaylistStatus), Nothing),
      Resource("youtube#playlist", id, Nothing, Nothing, Nothing) }

StoredChannels(id) ==
    { Resource("youtube#channel", id, Nothing, Nothing, Some(CurrentBrandingSettings)) }

StoredCommentThreads(id) ==
    { Resource("youtube#commentThread", id, Nothing, Nothing, Nothing) }

\* VideoUpdateInput, client.ts:171-181
VideoUpdateInput(title, description, tags, categoryId, privacyStatus, embeddable, publicStatsViewable, madeForKids, defaultLanguage) ==
    [title |-> title, description |-> description, tags |-> tags,
     categoryId |-> categoryId, privacyStatus |-> privacyStatus,
     embeddable |-> embeddable, publicStatsViewable |-> publicStatsViewable,
     madeForKids |-> madeForKids, defaultLanguage |-> defaultLanguage]

\* ChannelUpdateInput, client.ts:188-194
ChannelUpdateInput(description, keywords, defaultLanguage, country, unsubscribedTrailer) ==
    [description |-> description, keywords |-> keywords,
     defaultLanguage |-> defaultLanguage, country |-> country,
     unsubscribedTrailer |-> unsubscribedTrailer]

\* PlaylistUpdateInput, client.ts:203-208
PlaylistUpdateInput(title, description, privacyStatus, defaultLanguage) ==
    [title |-> title, description |-> description, privacyStatus |-> privacyStatus,
     defaultLanguage |-> defaultLanguage]

\* The update inputs tried: each field omitted or supplied; a supplied string may
\* be empty and a supplied boolean may be false.
VideoUpdates ==
    { VideoUpdateInput(t, d, Nothing, Nothing, p, e, Nothing, m, Nothing) :
        t \in {Nothing, Some(""), Some("New title")},
        d \in {Nothing, Some("New description")},
        p \in {Nothing, Some("private")},
        e \in {Nothing, Some(FALSE)},
        m \in {Nothing, Some(TRUE)} }
    \cup { VideoUpdateInput(Nothing, Nothing, Some(<<>>), Some("10"), Nothing, Nothing,
                            Some(FALSE), Nothing, Some("fr")) }

ChannelUpdates ==
    { ChannelUpdateInput(d, k, Nothing, c, Nothing) :
        d \in {Nothing, Some("New description")},
        k \in {Nothing, Some("")},
        c \in {Nothing, Some("DE")} }

PlaylistUpdates ==
    { PlaylistUpdateInput(t, d, p, l) :
        t \in {Nothing, Some(""), Some("New list")},
        d \in {Nothing, Some("New description")},
        p \in {Nothing, Some("unlisted")},
        l \in {Nothing, Some("fr")} }

NoUpdates == [none |-> TRUE]

ResourceOperation(name, id, updates) == [name |-> name, id |-> id, updates |-> updates]

GetByIdOperations == {"getVideo", "getChannel", "getPlaylist", "getCommentThread"}
UpdateOperations == {"updateVideo", "updateChannel", "updatePlaylist"}

ResourceOperations ==
    { ResourceOperation(n, id, NoUpdates) : n \in GetByIdOperations, id \in ResourceIds }
    \cup { ResourceOperation("updateVideo", "abc123", u) : u \in VideoUpdates }
    \cup { ResourceOperation("updateChannel", "abc123", u) : u \in ChannelUpdates }
    \cup { ResourceOperation("updatePlaylist", "abc123", u) : u \in PlaylistUpdates }

\* `a ?? b` on optional values
Coalesce(a, b) == IF IsSome(a) THEN a ELSE b
\* `part?.field` on an optional sub-object
Field(part, f) == IF IsSome(part) THEN Get(part)[f] ELSE Nothing

\* One call of request(): its method, endpoint, `part` parameter (the names that
\* are joined with commas), `id` parameter and JSON body.  A field of the body
\* that is Nothing is undefined and left out by JSON.stringify.
ApiCall(method, endpoint, part, id, body) ==
    [method |-> method, endpoint |-> endpoint, part |-> part, id |-> id, body |-> body]

\* listVideos / listChannels for one id: request(), then toPaginatedResponse
listByIds(resp) ==
    LET r == listSettle(requestSettle(resp)) IN
    IF r.ok THEN Returned(Some(toPaginatedResponse(Get(r.value)))) ELSE r

\* The first item of a list, `items[0]`: undefined when there is none.
FirstItem(items) == IF Len(items) = 0 THEN Nothing ELSE Some(items[1])

getVideoUnchecked(videoId, resp) ==
    LET listed == listByIds(resp) IN
    IF ~listed.ok THEN listed
    ELSE Returned(FirstItem(Get(listed.value).items))
getVideo(videoId, resp) ==
    LET listed == listByIds(resp) IN
    IF ~listed.ok THEN listed
    ELSE IF Len(Get(listed.value).items) = 0 THEN Thrown(NotFoundError("Video", videoId))
    ELSE Returned(FirstItem(Get(listed.value).items))

getChannel(channelId, resp) ==
    LET listed == listByIds(resp) IN
    IF ~listed.ok THEN listed
    ELSE IF Len(Get(listed.value).items) = 0 THEN Thrown(NotFoundError("Channel", channelId))
    ELSE Returned(FirstItem(Get(listed.value).items))

\* getPlaylist and getCommentThread test `!response.items?.length` on what
\* request() returned.
getPlaylistUnchecked(playlistId, resp) ==
    LET r == listSettle(requestSettle(resp)) IN
    IF ~r.ok THEN r
    ELSE Returned(FirstItem(itemsOrEmpty(Get(r.value))))
getPlaylist(playlistId, resp) ==
    LET r == listSettle(requestSettle(resp)) IN
    IF ~r.ok THEN r
    ELSE IF Len(itemsOrEmpty(Get(r.value))) = 0
         THEN Thrown(NotFoundError("Playlist", playlistId))
    ELSE Returned(FirstItem(itemsOrEmpty(Get(r.value))))

getCommentThread(commentThreadId, resp) ==
    LET r == listSettle(requestSettle(resp)) IN
    IF ~r.ok THEN r
    ELSE IF Len(itemsOrEmpty(Get(r.value))) = 0
         THEN Thrown(NotFoundError("CommentThread", commentThreadId))
    ELSE Returned(FirstItem(itemsOrEmpty(Get(r.value))))

\* The body updateVideo builds from the updates and the fetched video.
updateVideoBodyOr(videoId, updates, current) ==
    [id |-> videoId,
     snippet |-> Some(
        [title |-> IF Truthy(updates.title) THEN updates.title
                   ELSE Field(current.snippet, "title"),
         description |-> Coalesce(updates.description, Field(current.snippet, "description")),
         tags |-> Coalesce(updates.tags, Field(current.snippet, "tags")),
         categoryId |-> Coalesce(updates.categoryId, Field(current.snippet, "categoryId")),
         defaultLanguage |-> Coalesce(updates.defaultLanguage,
                                      Field(current.snippet, "defaultLanguage"))]),
     status |->
        IF \/ Truthy(updates.privacyStatus)
           \/ IsSome(updates.embeddable)
           \/ IsSome(updates.publicStatsViewable)
           \/ IsSome(updates.madeForKids)
        THEN Some(
            [privacyStatus |-> Coalesce(updates.privacyStatus,
                                        Field(current.status, "privacyStatus")),
             embeddable |-> Coalesce(updates.embeddable, Field(current.status, "embeddable")),
             publicStatsViewable |-> Coalesce(updates.publicStatsViewable,
                                              Field(current.status, "publicStatsViewable")),
             madeForKids |-> Coalesce(updates.madeForKids,
                                      Field(current.status, "madeForKids"))])
        ELSE Nothing]
updateVideoBody(videoId, updates, current) ==
    [id |-> videoId,
     snippet |-> Some(
        [title |-> Coalesce(updates.title, Field(current.snippet, "title")),
         description |-> Coalesce(updates.description, Field(current.snippet, "description")),
         tags |-> Coalesce(updates.tags, Field(current.snippet, "tags")),
         categoryId |-> Coalesce(updates.categoryId, Field(current.snippet, "categoryId")),
         defaultLanguage |-> Coalesce(updates.defaultLanguage,
                                      Field(current.snippet, "defaultLanguage"))]),
     status |->
        IF \/ Truthy(updates.privacyStatus)
           \/ IsSome(updates.embeddable)
           \/ IsSome(updates.publicStatsViewable)
           \/ IsSome(updates.madeForKids)
        THEN Some(
            [privacyStatus |-> Coalesce(updates.privacyStatus,
                                        Field(current.status, "privacyStatus")),
             embeddable |-> Coalesce(updates.embeddable, Field(current.status, "embeddable")),
             publicStatsViewable |-> Coalesce(updates.publicStatsViewable,
                                              Field(current.status, "publicStatsViewable")),
             madeForKids |-> Coalesce(updates.madeForKids,
                                      Field(current.status, "madeForKids"))])
        ELSE Nothing]

\* The body updateChannel builds: from the updates alone.
updateChannelBody(channelId, updates) ==
    [id |-> channelId,
     brandingSettings |-> Some(
        [channel |-> [description |-> updates.description,
                      keywords |-> updates.keywords,
                      defaultLanguage |-> updates.defaultLanguage,
                      country |-> updates.country,
                      unsubscribedTrailer |-> updates.unsubscribedTrailer]])]

\* The body updatePlaylist builds from the updates and the fetched playlist.
updatePlaylistBody(playlistId, updates, current) ==
    [id |-> playlistId,
     snippet |-> Some(
        [title |-> Coalesce(updates.title, Field(current.snippet, "title")),
         description |-> Coalesce(updates.description, Field(current.snippet, "description")),
         defaultLanguage |-> Coalesce(updates.defaultLanguage,
                                      Field(current.snippet, "defaultLanguage"))]),
     status |-> Some(
        [privacyStatus |-> Coalesce(updates.privacyStatus,
                                    Field(current.status, "privacyStatus"))])]

\* The upstream call an operation makes first.
FirstResourceCall(o) ==
    CASE o.name = "getVideo" ->
            ApiCall("GET", "/videos", <<"snippet", "contentDetails", "statistics", "status">>,
                    Some(o.id), Nothing)
      [] o.name = "getChannel" ->
            ApiCall("GET", "/channels", <<"snippet", "contentDetails", "statistics">>,
                    Some(o.id), Nothing)
      [] o.name = "getPlaylist" ->
            ApiCall("GET", "/playlists", <<"snippet", "contentDetails", "status">>,
                    Some(o.id), Nothing)
      [] o.name = "getCommentThread" ->
            ApiCall("GET", "/commentThreads", <<"snippet", "replies">>, Some(o.id), Nothing)
      [] o.name = "updateVideo" ->
            ApiCall("GET", "/videos", <<"snippet", "status">>, Some(o.id), Nothing)
      [] o.name = "updatePlaylist" ->
            ApiCall("GET", "/playlists", <<"snippet", "status">>, Some(o.id), Nothing)
      [] o.name = "updateChannel" ->
            ApiCall("PUT", "/channels", <<"brandingSettings">>, Nothing,
                    Some(updateChannelBody(o.id, o.updates)))

\* What the operation's get-by-id step makes of the upstream response.
GetById(o, resp) ==
    CASE o.name \in {"getVideo", "updateVideo"}       -> getVideo(o.id, resp)
      [] o.name = "getChannel"                        -> getChannel(o.id, resp)
      [] o.name \in {"getPlaylist", "updatePlaylist"} -> getPlaylist(o.id, resp)
      [] o.name = "getCommentThread"                  -> getCommentThread(o.id, resp)

\* The PUT of updateVideo / updatePlaylist, once the current resource is fetched.
PutCall(o, current) ==
    CASE o.name = "updateVideo" ->
            ApiCall("PUT", "/videos", <<"snippet", "status">>, Nothing,
                    Some(updateVideoBody(o.id, o.updates, current)))
      [] o.name = "updatePlaylist" ->
            ApiCall("PUT", "/playlists", <<"snippet", "status">>, Nothing,
                    Some(updatePlaylistBody(o.id, o.updates, current)))

\* The resources upstream can answer an operation with.
Stored(o) ==
    CASE o.name \in {"getVideo", "updateVideo"}       -> StoredVideos("abc123")
      [] o.name \in {"getChannel", "updateChannel"}   -> StoredChannels("abc123")
      [] o.name \in {"getPlaylist", "updatePlaylist"} -> StoredPlaylists("abc123")
      [] o.name = "getCommentThread"                  -> StoredCommentThreads("abc123")
      [] OTHER                                        -> {}

ResourceResponse(status, json) ==
    [status |-> status,
     body |-> Body(IF IsSome(json) THEN "{...}" ELSE "", FALSE, json),
     retryAfter |-> Nothing]

\* Answers to the list call: a list response with no items field, with no items,
\* or with the resource; a body that is not JSON; no content; an error status.
FetchResponses(o) ==
    { ResourceResponse(200, Some(Json(Nothing, Nothing, items, Nothing, Nothing, Nothing))) :
        items \in {Nothing, Some(<<>>)} \cup { Some(<<r>>) : r \in Stored(o) } }
    \cup { ResourceResponse(s, Nothing) : s \in {200, 204, 403, 404, 429, 500} }

\* Answers to the PUT: the updated resource, or an error status.
PutResponses(o) ==
    { ResourceResponse(200, Some(r)) : r \in Stored(o) }
    \cup { ResourceResponse(s, Nothing) : s \in {403, 429, 500} }

NoResourceOperation == [name |-> "(none)"]

InitResource ==
    /\ rpc = "start"
    /\ rop = NoResourceOperation
    /\ rcalls = <<>>
    /\ rresps = <<>>
    /\ rresult = NoResult
    /\ ClientIdle
    /\ WorkerIdle
    /\ ListIdle
    /\ ToolIdle
    /\ FormatIdle

\* The caller invokes the operation; it runs to the await of its first call.
ResourceInvoke(o) ==
    /\ rpc = "start"
    /\ rop' = o
    /\ rcalls' = <<FirstResourceCall(o)>>
    /\ rpc' = IF FirstResourceCall(o).method = "GET" THEN "fetching" ELSE "putting"
    /\ UNCHANGED <<rresps, rresult>>
    /\ UNCHANGED <<clientVars, workerVars, listVars, toolVars, formatVars>>

\* The call an operation issues after its get-by-id step ended with `current`:
\* the PUT of updateVideo / updatePlaylist once `await this.getVideo(...)` /
\* `await this.getPlaylist(...)` has returned the resource; none when the
\* operation is a get-by-id, when the step threw (the await rethrows), or when
\* the step returned undefined (`current.snippet` throws before the PUT).
SecondCallRetrying(o, current) ==
    IF ~current.ok /\ Retryable(current.error) THEN Some(FirstResourceCall(o))
    ELSE IF o.name \in GetByIdOperations \/ ~current.ok THEN Nothing
    ELSE IF ~IsSome(current.value) THEN Nothing
    ELSE Some(PutCall(o, Get(current.value)))
SecondCall(o, current) ==
    IF o.name \in GetByIdOperations \/ ~current.ok THEN Nothing
    ELSE IF ~IsSome(current.value) THEN Nothing
    ELSE Some(PutCall(o, Get(current.value)))

\* The list call is answered.  A get-by-id operation ends; an update operation
\* that has its current resource builds the body and awaits the PUT.
CurrentFetched(resp) ==
    /\ rpc = "fetching"
    /\ resp \in FetchResponses(rop)
    /\ rresps' = Append(rresps, resp)
    /\ LET current == GetById(rop, resp)
           next == SecondCall(rop, current)
       IN
       IF IsSome(next) THEN
            /\ rcalls' = Append(rcalls, Get(next))
            /\ rpc' = "putting"
            /\ rresult' = rresult
       ELSE
            \* `current.snippet` of undefined when an update got no resource
            /\ rresult' = (IF current.ok /\ rop.name \in UpdateOperations
                           THEN Thrown(UndefinedTypeError) ELSE current)
            /\ rpc' = "done"
            /\ rcalls' = rcalls
    /\ UNCHANGED rop
    /\ UNCHANGED <<clientVars, workerVars, listVars, toolVars, formatVars>>

\* The PUT is answered: the operation returns request()'s outcome.
PutAnswered(resp) ==
    /\ rpc = "putting"
    /\ resp \in PutResponses(rop)
    /\ rresps' = Append(rresps, resp)
    /\ rresult' = requestSettle(resp)
    /\ rpc' = "done"
    /\ UNCHANGED <<rop, rcalls>>
    /\ UNCHANGED <<clientVars, workerVars, listVars, toolVars, formatVars>>

\* The awaited call fails at the network level.
ResourceCallRejects ==
    /\ rpc \in {"fetching", "putting"}
    /\ rresult' = Thrown(FetchTypeError)
    /\ rpc' = "done"
    /\ UNCHANGED <<rop, rcalls, rresps>>
    /\ UNCHANGED <<clientVars, workerVars, listVars, toolVars, formatVars>>

AllResourceResponses ==
    UNION { FetchResponses(o) \cup PutResponses(o) : o \in ResourceOperations }

NextResource ==
    \/ \E o \in ResourceOperations : ResourceInvoke(o)
    \/ \E resp \in AllResourceResponses : CurrentFetched(resp)
    \/ \E resp \in AllResourceResponses : PutAnswered(resp)
    \/ ResourceCallRejects

SpecResource == InitResource /\ [][NextResource]_vars

(***************************************************************************)
(* Claims about get-by-id and update operations (checked under             *)
(* SpecResource)                                                           *)
(***************************************************************************)
EntityTypeOf(name) ==
    CASE name = "getVideo"         -> "Video"
      [] name = "getChannel"       -> "Channel"
      [] name = "getPlaylist"      -> "Playlist"
      [] name = "getCommentThread" -> "CommentThread"

\* The call succeeded with a list response whose items are absent or empty.
EmptyResult(resp) ==
    /\ Ok(resp) /\ resp.status /= 204
    /\ IsSome(resp.body.json)
    /\ Get(resp.body.json).items \in {Nothing, Some(<<>>)}

\* C11: when the upstream call of getVideo, getChannel, getPlaylist or
\* getCommentThread succeeds with an empty or absent items list, the operation
\* fails with a not-found error whose message names its entity type (Video,
\* Channel, Playlist, CommentThread) and the requested id; it returns no item.
C11_EmptyResultIsNotFound ==
    (rpc = "done" /\ rop.name \in GetByIdOperations /\ Len(rresps) = 1
        /\ EmptyResult(rresps[1])) =>
        /\ ~rresult.ok
        /\ rresult.error.name = "NotFoundError"
        /\ rresult.error.message =
              EntityTypeOf(rop.name) \o " with ID '" \o rop.id \o "' not found"

\* Reached: getCommentThread('xyz789') answered 200 with no items field has
\* failed with "CommentThread with ID 'xyz789' not found".
C11_Witness ==
    /\ rpc = "done" /\ rop.name = "getCommentThread" /\ rop.id = "xyz789"
    /\ Len(rresps) = 1 /\ rresps[1].status = 200
    /\ IsSome(rresps[1].body.json) /\ Get(rresps[1].body.json).items = Nothing
    /\ ~rresult.ok
    /\ rresult.error.message = "CommentThread with ID 'xyz789' not found"

\* The resource an update operation fetched: the first item of the list answer.
FetchedCurrent == Get(Get(rresps[1].body.json).items)[1]

NoFieldsSupplied(updates) == \A f \in DOMAIN updates : ~IsSome(updates[f])

\* C13: an update operation (video, channel or playlist) called with no update
\* field is a no-op: its PUT follows a fetch of the current resource and carries,
\* for every part named in its part parameter, the complete current sub-object as
\* just fetched.
C13_NoFieldUpdateIsNoOp ==
    \A i \in 1..Len(rcalls) :
        (rcalls[i].method = "PUT" /\ rop.name \in UpdateOperations
            /\ NoFieldsSupplied(rop.updates)) =>
        /\ i = 2
        /\ Len(rresps) >= 1
        /\ \A k \in 1..Len(rcalls[i].part) :
              Get(rcalls[i].body)[rcalls[i].part[k]] = FetchedCurrent[rcalls[i].part[k]]

\* C20: updateVideo, updateChannel and updatePlaylist fetch the current resource
\* first and issue the PUT only afterwards: a PUT is never the first upstream call
\* of an update operation.
C20_FetchBeforePut ==
    \A i \in 1..Len(rcalls) :
        rcalls[i].method = "PUT" =>
            /\ i > 1
            /\ rcalls[1].method = "GET"
            /\ Len(rresps) >= 1

\* C21: no operation retries: every operation issues at most two upstream calls,
\* one after the other (a call is issued only when every earlier call has been
\* answered), and once an upstream call ends in a failure (a non-2xx answer,
\* the retryable 429 included, or a rejected fetch) the operation ends with an
\* error and issues no further call.
C21_NoRetry ==
    [][ /\ Len(rcalls') <= 2
        /\ Len(rcalls') <= Len(rresps') + 1
        /\ Len(rcalls') > Len(rcalls) => Len(rresps') = Len(rcalls)
        /\ (\E i \in 1..Len(rresps') : ~Ok(rresps'[i])) =>
              /\ rcalls' = rcalls
              /\ rpc' = "done"
              /\ ~rresult'.ok
        /\ rpc = "done" => rcalls' = rcalls ]_vars

\* Reached: updateVideo whose fetch was answered 429 has ended with the retryable
\* rate-limit error after that single call.
C21_Witness ==
    /\ rpc = "done" /\ rop.name = "updateVideo"
    /\ Len(rcalls) = 1 /\ Len(rresps) = 1 /\ rresps[1].status = 429
    /\ ErrorIs(rresult, "RateLimitError") /\ Retryable(rresult.error)

\* The entity an update operation reads first.
ReadEntityOf(name) == IF name = "updateVideo" THEN "Video" ELSE "Playlist"

\* C23: in updateVideo and updatePlaylist, if the initial read fails (a non-2xx
\* answer or a rejected fetch) or returns no item, no PUT is issued, so the
\* upstream resource is left unchanged, and the outcome is the read's error: the
\* error request() maps the answer to, the fetch's own error, or for an empty
\* result the not-found error naming the entity and the id.
C23_FailedReadIssuesNoPut ==
    rop.name \in {"updateVideo", "updatePlaylist"} =>
        /\ (\E i \in 1..Len(rcalls) : rcalls[i].method = "PUT") =>
              /\ Len(rresps) >= 1
              /\ Ok(rresps[1])
              /\ ~EmptyResult(rresps[1])
        /\ (rpc = "done" /\ Len(rresps) = 0) =>
              /\ Len(rcalls) = 1 /\ rcalls[1].method = "GET"
              /\ rresult = Thrown(FetchTypeError)
        /\ (rpc = "done" /\ Len(rresps) = 1 /\ ~Ok(rresps[1])) =>
              /\ Len(rcalls) = 1 /\ rcalls[1].method = "GET"
              /\ rresult = requestSettle(rresps[1])
              /\ ~rresult.ok
        /\ (rpc = "done" /\ Len(rresps) = 1 /\ EmptyResult(rresps[1])) =>
              /\ Len(rcalls) = 1 /\ rcalls[1].method = "GET"
              /\ ~rresult.ok
              /\ rresult.error.name = "NotFoundError"
              /\ rresult.error.message =
                    ReadEntityOf(rop.name) \o " with ID '" \o rop.id \o "' not found"

\* Reached: updatePlaylist whose read was answered 200 with an empty items list
\* has ended with "Playlist with ID 'abc123' not found" after the GET alone.
C23_Witness ==
    /\ rpc = "done" /\ rop.name = "updatePlaylist" /\ rop.id = "abc123"
    /\ Len(rcalls) = 1 /\ rcalls[1].method = "GET"
    /\ Len(rresps) = 1 /\ rresps[1].status = 200
    /\ IsSome(rresps[1].body.json) /\ Get(rresps[1].body.json).items = Some(<<>>)
    /\ ~rresult.ok
    /\ rresult.error.message = "Playlist with ID 'abc123' not found"

(***************************************************************************)
(* The Markdown formatter, src/src/utils/formatters.ts.  A rendering is the *)
(* sequence of lines that the code joins with newlines; a line is kept     *)
(* with its kind and, for the lines of a table, its cells.                 *)
(***************************************************************************)
TitleMaxLength == 40
CommentMaxLength == 50

RECURSIVE Join(_, _)
\* cells.join(sep)
Join(cells, sep) ==
    IF Len(cells) = 0 THEN ""
    ELSE IF Len(cells) = 1 THEN cells[1]
    ELSE cells[1] \o sep \o Join(Tail(cells), sep)

TextLine(text) == [kind |-> "text", cells |-> <<>>, text |-> text]
\* `| a | b |`
HeaderLine(cells) == [kind |-> "header", cells |-> cells, text |-> "| " \o Join(cells, " | ") \o " |"]
\* `|---|---|`
SeparatorLine(n) ==
    [kind |-> "separator", cells |-> [i \in 1..n |-> "---"],
     text |-> "|" \o Join([i \in 1..n |-> "---"], "|") \o "|"]
RowLine(cells) == [kind |-> "row", cells |-> cells, text |-> "| " \o Join(cells, " | ") \o " |"]

LowerCase == "abcdefghijklmnopqrstuvwxyz"
UpperCase == "ABCDEFGHIJKLMNOPQRSTUVWXYZ"
\* c.toUpperCase() of one character
toUpperCase(c) ==
    IF \E i \in 1..Len(LowerCase) : SubSeq(LowerCase, i, i) = c
    THEN LET i == CHOOSE i \in 1..Len(LowerCase) : SubSeq(LowerCase, i, i) = c
         IN SubSeq(UpperCase, i, i)
    ELSE c

\* capitalize, formatters.ts:367-369
capitalize(str) ==
    IF Len(str) = 0 THEN ""
    ELSE toUpperCase(SubSeq(str, 1, 1)) \o SubSeq(str, 2, Len(str))

\* truncate, formatters.ts:384-387
truncateKeepsMax(str, maxLength) ==
    IF Len(str) <= maxLength THEN str
    ELSE SubSeq(str, 1, maxLength) \o "..."
truncate(str, maxLength) ==
    IF Len(str) <= maxLength THEN str
    ELSE SubSeq(str, 1, maxLength - 3) \o "..."

\* `x || '-'` and `x ?? '-'` of an optional string
OrDash(o) == IF Truthy(o) THEN Get(o) ELSE "-"
CoalesceDash(o) == IF IsSome(o) THEN Get(o) ELSE "-"

\* An item of an envelope, by the leaves the table functions read: `title` is
\* snippet?.title, `textDisplay` the comment text (snippet?.textDisplay, for a
\* thread snippet?.topLevelComment?.snippet?.textDisplay), `idKind` is id.kind of
\* a search result (Nothing: the item has no id object), `channelTitle` the
\* second text column (channelTitle, authorDisplayName), `count` the first
\* numeric column (viewCount, subscriberCount, itemCount, position, likeCount,
\* totalReplyCount, newItemCount) as upstream's string.  A leaf is Nothing when
\* it or a part around it is absent; the remaining columns are absent from the
\* items modelled and render as '-'.
Item(id, title, textDisplay, idKind, channelTitle, count) ==
    [id |-> id, title |-> title, textDisplay |-> textDisplay, idKind |-> idKind,
     channelTitle |-> channelTitle, count |-> count]

\* formatVideosTable, formatters.ts:168-182
formatVideosTable(videos) ==
    <<HeaderLine(<<"ID", "Title", "Channel", "Views", "Duration">>), SeparatorLine(5)>>
    \o [i \in 1..Len(videos) |->
          RowLine(<<videos[i].id, truncate(OrDash(videos[i].title), TitleMaxLength),
                    OrDash(videos[i].channelTitle), OrDash(videos[i].count), "-">>)]

\* formatChannelsTable, formatters.ts:187-200
formatChannelsTable(channels) ==
    <<HeaderLine(<<"ID", "Title", "Subscribers", "Videos">>), SeparatorLine(4)>>
    \o [i \in 1..Len(channels) |->
          RowLine(<<channels[i].id, truncate(OrDash(channels[i].title), TitleMaxLength),
                    OrDash(channels[i].count), "-">>)]

\* formatPlaylistsTable, formatters.ts:205-218
formatPlaylistsTable(playlists) ==
    <<HeaderLine(<<"ID", "Title", "Items", "Privacy">>), SeparatorLine(4)>>
    \o [i \in 1..Len(playlists) |->
          RowLine(<<playlists[i].id, truncate(OrDash(playlists[i].title), TitleMaxLength),
                    CoalesceDash(playlists[i].count), "-">>)]

\* formatPlaylistItemsTable, formatters.ts:223-236
formatPlaylistItemsTable(items) ==
    <<HeaderLine(<<"ID", "Position", "Video Title", "Video ID">>), SeparatorLine(4)>>
    \o [i \in 1..Len(items) |->
          RowLine(<<items[i].id, CoalesceDash(items[i].count),
                    truncate(OrDash(items[i].title), TitleMaxLength), "-">>)]

\* `kind.replace('youtube#', '')` of the kinds upstream sends
replaceYoutubePrefix(kind) ==
    IF Len(kind) >= 8 /\ SubSeq(kind, 1, 8) = "youtube#"
    THEN SubSeq(kind, 9, Len(kind)) ELSE kind

\* formatSearchResultsTable, formatters.ts:241-255; reading id.kind of an item
\* without an id object throws (see TableThrows).
formatSearchResultsTable(results) ==
    <<HeaderLine(<<"Type", "ID", "Title", "Channel">>), SeparatorLine(4)>>
    \o [i \in 1..Len(results) |->
          RowLine(<<replaceYoutubePrefix(Get(results[i].idKind)), results[i].id,
                    truncate(OrDash(results[i].title), TitleMaxLength),
                    OrDash(results[i].channelTitle)>>)]

\* formatCommentsTable, formatters.ts:260-273
formatCommentsTable(comments) ==
    <<HeaderLine(<<"ID", "Author", "Comment", "Likes">>), SeparatorLine(4)>>
    \o [i \in 1..Len(comments) |->
          RowLine(<<comments[i].id, OrDash(comments[i].channelTitle),
                    truncate(OrDash(comments[i].textDisplay), CommentMaxLength),
                    CoalesceDash(comments[i].count)>>)]

\* formatCommentThreadsTable, formatters.ts:278-292
formatCommentThreadsTable(threads) ==
    <<HeaderLine(<<"ID", "Author", "Comment", "Replies">>), SeparatorLine(4)>>
    \o [i \in 1..Len(threads) |->
          RowLine(<<threads[i].id, OrDash(threads[i].channelTitle),
                    truncate(OrDash(threads[i].textDisplay), CommentMaxLength),
                    CoalesceDash(threads[i].count)>>)]

\* formatSubscriptionsTable, formatters.ts:297-309
formatSubscriptionsTable(subscriptions) ==
    <<HeaderLine(<<"ID", "Channel", "New Items">>), SeparatorLine(3)>>
    \o [i \in 1..Len(subscriptions) |->
          RowLine(<<subscriptions[i].id,
                    truncate(OrDash(subscriptions[i].title), TitleMaxLength),
                    CoalesceDash(subscriptions[i].count)>>)]

\* Object.keys(first).slice(0, 5): the id and the leaves the first item has.
ObjectKeysUnsliced(item) ==
    <<"id">> \o SelectSeq(<<"title", "textDisplay", "idKind", "channelTitle", "count">>,
                          LAMBDA k : IsSome(item[k]))
ObjectKeys(item) ==
    LET keys == <<"id">> \o SelectSeq(<<"title", "textDisplay", "idKind", "channelTitle",
                                        "count">>, LAMBDA k : IsSome(item[k]))
    IN SubSeq(keys, 1, IF Len(keys) < 5 THEN Len(keys) ELSE 5)

\* String(record[k] ?? '-')
GenericCell(item, k) == IF k = "id" THEN item.id ELSE CoalesceDash(item[k])

\* formatGenericTable, formatters.ts:314-331
formatGenericTable(items) ==
    IF Len(items) = 0 THEN <<TextLine("_No items_")>>
    ELSE LET keys == ObjectKeys(items[1]) IN
         <<HeaderLine(keys), SeparatorLine(Len(keys))>>
         \o [i \in 1..Len(items) |->
               RowLine([k \in 1..Len(keys) |-> GenericCell(items[i], keys[k])])]

\* The switch of formatPaginatedAsMarkdown, formatters.ts:133-160
TableOf(entityType, items) ==
    CASE entityType = "videos"         -> formatVideosTable(items)
      [] entityType = "channels"       -> formatChannelsTable(items)
      [] entityType = "playlists"      -> formatPlaylistsTable(items)
      [] entityType = "playlistItems"  -> formatPlaylistItemsTable(items)
      [] entityType = "searchResults"  -> formatSearchResultsTable(items)
      [] entityType = "comments"       -> formatCommentsTable(items)
      [] entityType = "commentThreads" -> formatCommentThreadsTable(items)
      [] entityType = "subscriptions"  -> formatSubscriptionsTable(items)
      [] OTHER                         -> formatGenericTable(items)

\* `result.id.kind` of a search result without an id object: a TypeError.
TableThrows(entityType, items) ==
    entityType = "searchResults" /\ \E i \in 1..Len(items) : ~IsSome(items[i].idKind)

\* The lines formatPaginatedAsMarkdown pushes before the items, formatters.ts:112-126
\* (the token is written between backquotes, shown here as quotes)
PaginatedHeading(data, entityType) ==
    <<TextLine("## " \o capitalize(entityType)),
      TextLine(""),
      TextLine(IF IsSome(data.totalResults)
               THEN "**Total:** " \o ToString(Get(data.totalResults))
                    \o " | **Showing:** " \o ToString(data.count)
               ELSE "**Showing:** " \o ToString(data.count))>>
    \o (IF data.hasMore /\ Truthy(data.nextPageToken)
        THEN <<TextLine("**More available:** Yes (nextPageToken: '"
                        \o Get(data.nextPageToken) \o "')")>>
        ELSE <<>>)
    \o <<TextLine("")>>

\* formatPaginatedAsMarkdown, formatters.ts:111-163
formatPaginatedWithoutNotice(data, entityType) ==
    IF TableThrows(entityType, data.items) THEN Thrown(UndefinedTypeError)
    ELSE Returned(Some(PaginatedHeading(data, entityType) \o TableOf(entityType, data.items)))
formatPaginatedAsMarkdown(data, entityType) ==
    IF Len(data.items) = 0
    THEN Returned(Some(PaginatedHeading(data, entityType)
                       \o <<TextLine("_No items found._")>>))
    ELSE IF TableThrows(entityType, data.items) THEN Thrown(UndefinedTypeError)
    ELSE Returned(Some(PaginatedHeading(data, entityType) \o TableOf(entityType, data.items)))

(***************************************************************************)
(* SpecFormat: formatResponse renders one paginated envelope as Markdown.  *)
(***************************************************************************)
MaxTextLength == 52

\* The plural entity types the list tools pass to formatResponse.
EntityTypes ==
    {"videos", "channels", "playlists", "playlistItems", "searchResults", "comments",
     "commentThreads", "subscriptions", "captions", "activities", "channelSections",
     "languages", "regions", "videoCategories", "abuseReasons", "members",
     "membershipLevels"}

RECURSIVE TextOfLength(_)
\* A text of n characters.
TextOfLength(n) ==
    IF n = 0 THEN ""
    ELSE TextOfLength(n - 1) \o SubSeq(LowerCase, ((n - 1) % 26) + 1, ((n - 1) % 26) + 1)

Texts == {Nothing} \cup { Some(TextOfLength(n)) : n \in 0..MaxTextLength }

FormatItems(entityType) ==
    { Item("id1", t, t, k, Some("Channel"), c) :
        t \in Texts,
        k \in {Some("youtube#video")}
              \cup (IF entityType = "searchResults" THEN {Nothing} ELSE {}),
        c \in {Nothing, Some("0")} }

\* PaginatedResponse<T>, part_004:18-33, as the client and the tools build it:
\* count is the number of items and hasMore tells whether a token is present.
PaginatedResponse(items, totalResults, nextPageToken) ==
    [items |-> items, count |-> Len(items), totalResults |-> totalResults,
     resultsPerPage |-> Nothing, hasMore |-> Truthy(nextPageToken),
     nextPageToken |-> nextPageToken, prevPageToken |-> Nothing]

Envelopes(entityType) ==
    { PaginatedResponse(<<>>, total, next) :
        total \in {Nothing, Some(0), Some(120)}, next \in {Nothing, Some("ABC")} }
    \cup { PaginatedResponse(<<item>>, Some(120), Some("ABC")) :
             item \in FormatItems(entityType) }
    \cup { PaginatedResponse(<<item, Item("id2", Some("Short"), Some("Short"),
                                         Some("youtube#channel"), Nothing, Nothing)>>,
                             Nothing, Nothing) :
             item \in { i \in FormatItems(entityType) : i.count = Nothing } }

InitFormat ==
    /\ fpc = "start"
    /\ fentityType \in EntityTypes
    /\ fdata \in { Some(e) : e \in Envelopes(fentityType) }
    /\ fout = Nothing
    /\ ClientIdle
    /\ WorkerIdle
    /\ ListIdle
    /\ ResourceIdle
    /\ ToolIdle

\* formatResponse(data, 'markdown', entityType) on a paginated envelope
Render ==
    /\ fpc = "start"
    /\ fout' = Some(formatPaginatedAsMarkdown(Get(fdata), fentityType))
    /\ fpc' = "rendered"
    /\ UNCHANGED <<fdata, fentityType>>
    /\ UNCHANGED <<clientVars, workerVars, listVars, resourceVars, toolVars>>

NextFormat == Render

SpecFormat == InitFormat /\ [][NextFormat]_vars


(***************************************************************************)
(* Claims about the Markdown formatter (checked under SpecFormat)          *)
(***************************************************************************)
\* The lines of the rendering (none when the formatter threw).
RenderedLines ==
    IF IsSome(fout) /\ Get(fout).ok THEN Get(Get(fout).value) ELSE <<>>

\* C18: the Markdown rendering of a paginated envelope with zero items, for every
\* entity type, ends with the no-items notice and contains no table header,
\* separator or row.
C18_EmptyEnvelopeNotice ==
    (fpc = "rendered" /\ Len(Get(fdata).items) = 0) =>
        /\ Get(fout).ok
        /\ Len(RenderedLines) > 0
        /\ RenderedLines[Len(RenderedLines)] = TextLine("_No items found._")
        /\ \A i \in 1..Len(RenderedLines) : RenderedLines[i].kind = "text"

\* Reached: an empty page of search results with a total and a next-page token is
\* rendered as the heading, the totals, the token line and the notice.
C18_Witness ==
    /\ fpc = "rendered" /\ fentityType = "searchResults"
    /\ Get(fdata).items = <<>> /\ Get(fdata).totalResults = Some(120)
    /\ Get(fdata).nextPageToken = Some("ABC")
    /\ Len(RenderedLines) = 6
    /\ RenderedLines[1].text = "## SearchResults"
    /\ RenderedLines[3].text = "**Total:** 120 | **Showing:** 0"
    /\ RenderedLines[6].text = "_No items found._"

\* The column of each typed table that is truncated, and its maximum length.
TruncatedColumn(entityType) ==
    IF entityType \in {"videos", "channels", "playlists", "subscriptions"} THEN 2 ELSE 3
MaxLengthOf(entityType) ==
    IF entityType \in {"comments", "commentThreads"} THEN 50 ELSE 40
TypedTables ==
    {"videos", "channels", "playlists", "playlistItems", "searchResults", "comments",
     "commentThreads", "subscriptions"}
\* The value a row's truncated cell is made from: the title or the comment text,
\* '-' when it is absent or empty.
CellSource(entityType, item) ==
    IF entityType \in {"comments", "commentThreads"}
    THEN OrDash(item.textDisplay) ELSE OrDash(item.title)

\* C19: a table cell truncated to maximum length M (40 for titles, 50 for comment
\* texts) shows a value of at most M characters unchanged, and a longer value as
\* its first M-3 characters followed by "...", M characters in all.
C19_TruncatedCellLength ==
    (fpc = "rendered" /\ fentityType \in TypedTables /\ Get(fout).ok) =>
        \A i \in 1..Len(Get(fdata).items) :
            LET M == MaxLengthOf(fentityType)
                value == CellSource(fentityType, Get(fdata).items[i])
                cell == RenderedLines[Len(RenderedLines) - Len(Get(fdata).items) + i]
                            .cells[TruncatedColumn(fentityType)]
            IN
            /\ Len(value) <= M => cell = value
            /\ Len(value) > M =>
                  /\ Len(cell) = M
                  /\ SubSeq(cell, 1, M - 3) = SubSeq(value, 1, M - 3)
                  /\ SubSeq(cell, M - 2, M) = "..."

\* Reached: a video whose title has 41 characters is shown with its first 37
\* characters and "...", 40 in all.
C19_Witness ==
    /\ fpc = "rendered" /\ Get(fout).ok /\ Len(Get(fdata).items) = 1
    /\ fentityType = "videos"
    /\ IsSome(Get(fdata).items[1].title)
    /\ Len(Get(Get(fdata).items[1].title)) = 41
    /\ Len(RenderedLines[Len(RenderedLines)].cells[2]) = 40
    /\ SubSeq(RenderedLines[Len(RenderedLines)].cells[2], 38, 40) = "..."


(***************************************************************************)
(* The error formatter: formatErrorForLogging (errors.ts:110-130) and      *)
(* formatError (formatters.ts:51-75).                                      *)
(***************************************************************************)
\* ValidationError, errors.ts:70-78; details maps a field to its messages.
ValidationError(message, details) ==
    [name |-> "ValidationError", message |-> message, statusCode |-> Some(400),
     code |-> "VALIDATION_ERROR", retryable |-> FALSE, details |-> details]

\* An Error that is not a YouTubeApiError
PlainError(name, message) == [name |-> name, message |-> message]

\* A thrown value that is not an Error; `value` is String(error).
ThrownValue(value) == [value |-> value]

\* error instanceof YouTubeApiError: the classes of errors.ts carry a code
IsYouTubeApiError(error) == "code" \in DOMAIN error
\* error instanceof Error
IsError(error) == "name" \in DOMAIN error
IsRateLimitError(error) == IsYouTubeApiError(error) /\ error.name = "RateLimitError"
IsValidationError(error) == IsYouTubeApiError(error) /\ error.name = "ValidationError"

\* formatErrorForLogging, errors.ts:110-130
formatErrorForLoggingWithoutExtras(error) ==
    IF IsYouTubeApiError(error) THEN
        [name |-> error.name, message |-> error.message, code |-> error.code,
         statusCode |-> error.statusCode, retryable |-> error.retryable]
    ELSE IF IsError(error) THEN
        [name |-> error.name, message |-> error.message, stack |-> "(stack)"]
    ELSE [error |-> error.value]
formatErrorForLogging(error) ==
    IF IsYouTubeApiError(error) THEN
        [name |-> error.name, message |-> error.message, code |-> error.code,
         statusCode |-> error.statusCode, retryable |-> error.retryable]
        @@ (IF IsRateLimitError(error)
            THEN [retryAfterSeconds |-> error.retryAfterSeconds] ELSE <<>>)
        @@ (IF IsValidationError(error) THEN [details |-> error.details] ELSE <<>>)
    ELSE IF IsError(error) THEN
        [name |-> error.name, message |-> error.message, stack |-> "(stack)"]
    ELSE [error |-> error.value]

\* JSON.stringify of a number: NaN is written null.
JsonNumber(x) == IF x.nan THEN "null" ELSE ToString(x.n)

\* JSON.stringify of the details object: a property whose value is undefined is
\* left out, numbers are written as literals.
JsonOfErrorInfo(info) ==
    [k \in { k \in DOMAIN info : k = "statusCode" => IsSome(info[k]) } |->
        IF k = "statusCode" THEN ToString(Get(info[k]))
        ELSE IF k = "retryAfterSeconds" THEN JsonNumber(info[k])
        ELSE info[k]]

\* The text of a payload: a JSON document, plain text, or Markdown lines.
JsonText(value) == [kind |-> "json", value |-> value]
PlainText(text) == [kind |-> "plain", value |-> text]
MarkdownText(lines) == [kind |-> "markdown", value |-> lines]

\* ToolResponse, formatters.ts:24-28: its text content and the optional isError.
ToolResponse(text, isError) == [text |-> text, isError |-> isError]

\* The message formatError builds, formatters.ts:54-64
ErrorMessageOf(error) ==
    IF IsYouTubeApiError(error) THEN
        "Error: " \o error.message \o (IF error.retryable THEN " (retryable)" ELSE "")
    ELSE IF IsError(error) THEN "Error: " \o error.message
    ELSE "Error: " \o error.value

\* formatError, formatters.ts:51-75
formatError(error) ==
    ToolResponse(JsonText([error |-> ErrorMessageOf(error),
                           details |-> JsonOfErrorInfo(formatErrorForLogging(error))]),
                 Some(TRUE))


(***************************************************************************)
(* SpecError: formatError applied to one thrown value.                     *)
(***************************************************************************)
ErrorMessages == {"", "Invalid value", "Quota exhausted", "fetch failed"}

\* What a catch block can receive: the error classes of errors.ts as the client
\* builds them, other Errors (fetch's TypeError, JSON's SyntaxError), and values
\* that are not Errors.
ThrownValues ==
    { YouTubeApiError(m, s) : m \in ErrorMessages, s \in {400, 500, 503} }
    \cup { RateLimitError("Rate limit exceeded", x) : x \in {Num(0), Num(30), Num(60), NaN} }
    \cup { AuthenticationError(m) : m \in ErrorMessages }
    \cup { ForbiddenError(m) : m \in ErrorMessages }
    \cup { QuotaExceededError(m) : m \in ErrorMessages }
    \cup { NotFoundError(e, id) :
             e \in {"Video", "Channel", "Playlist", "CommentThread", "Resource"},
             id \in {"abc123", "unknown"} }
    \cup { ValidationError(m, d) :
             m \in ErrorMessages, d \in {<<>>, [title |-> <<"Required">>]} }
    \cup { PlainError(n, m) : n \in {"TypeError", "SyntaxError", "Error"}, m \in ErrorMessages }
    \cup { ThrownValue(v) : v \in {"boom", "", "undefined", "[object Object]"} }

InitError ==
    /\ tpc = "caught"
    /\ ttool = [name |-> "(none)"]
    /\ toutcome = Nothing
    /\ tcaught \in { Some(e) : e \in ThrownValues }
    /\ tresult = Nothing
    /\ tcalls = <<>>
    /\ tresps = <<>>
    /\ ClientIdle
    /\ WorkerIdle
    /\ ListIdle
    /\ ResourceIdle
    /\ FormatIdle

\* catch (error) { return formatError(error); }
FormatCaught ==
    /\ tpc = "caught"
    /\ tresult' = Some(Returned(Some(formatError(Get(tcaught)))))
    /\ tpc' = "returned"
    /\ UNCHANGED <<ttool, toutcome, tcaught, tcalls, tresps>>
    /\ UNCHANGED <<clientVars, workerVars, listVars, resourceVars, formatVars>>

NextError == FormatCaught

SpecError == InitError /\ [][NextError]_vars

\* The payload the handler returned.
Payload == Get(Get(tresult).value)

\* The error's message, or the stringified value when it is not an Error.
MessageOrString(e) == IF "message" \in DOMAIN e THEN e.message ELSE e.value

\* The error's retryable flag is true.
RetryableFlag(e) == "retryable" \in DOMAIN e /\ e.retryable

\* The details of a taxonomy error: name, message, code, status and retryable flag,
\* retry-after seconds exactly for a rate-limit error, the field detail map
\* exactly for a validation error.
TaxonomyDetails(e, details) ==
    /\ {"name", "message", "code", "statusCode", "retryable"} \subseteq DOMAIN details
    /\ details.name = e.name
    /\ details.message = e.message
    /\ details.code = e.code
    /\ details.statusCode = ToString(Get(e.statusCode))
    /\ details.retryable = e.retryable
    /\ ("retryAfterSeconds" \in DOMAIN details) <=> (e.name = "RateLimitError")
    /\ (e.name = "RateLimitError") =>
          details.retryAfterSeconds = JsonNumber(e.retryAfterSeconds)
    /\ ("details" \in DOMAIN details) <=> (e.name = "ValidationError")
    /\ (e.name = "ValidationError") => details.details = e.details

\* C17: for any thrown value the error formatter's message is "Error: " followed
\* by the error's message (the stringified value when it is not an error), with
\* the suffix " (retryable)" iff the retryable flag is true, and the details carry
\* name, message, code, status and retryable flag, plus retry-after seconds
\* exactly for rate-limit errors and the field detail map exactly for validation
\* errors.
C17_ErrorPayloadForAnyValue ==
    (tpc = "returned" /\ IsSome(tcaught) /\ ttool.name = "(none)") =>
        LET e == Get(tcaught) IN
        /\ Payload.isError = Some(TRUE)
        /\ Payload.text.kind = "json"
        /\ Payload.text.value.error =
              "Error: " \o MessageOrString(e)
                  \o (IF RetryableFlag(e) THEN " (retryable)" ELSE "")
        /\ IsYouTubeApiError(e)
        /\ TaxonomyDetails(e, Payload.text.value.details)

\* C17, amended: the message is as claimed; the details carry name, message, code,
\* status and retryable flag (with the two extras) for the errors of the taxonomy,
\* only name, message and stack for any other Error, and only the stringified
\* value for a value that is not an Error.
C17_ErrorPayloadByKind ==
    (tpc = "returned" /\ IsSome(tcaught) /\ ttool.name = "(none)") =>
        LET e == Get(tcaught)
            details == Payload.text.value.details
        IN
        /\ Payload.isError = Some(TRUE)
        /\ Payload.text.kind = "json"
        /\ Payload.text.value.error =
              "Error: " \o MessageOrString(e)
                  \o (IF RetryableFlag(e) THEN " (retryable)" ELSE "")
        /\ IsYouTubeApiError(e) => TaxonomyDetails(e, details)
        /\ (IsError(e) /\ ~IsYouTubeApiError(e)) =>
              /\ DOMAIN details = {"name", "message", "stack"}
              /\ details.name = e.name
              /\ details.message = e.message
        /\ ~IsError(e) => details = [error |-> e.value]

\* Reached: a rate-limit error with 30 seconds is formatted as
\* "Error: Rate limit exceeded (retryable)" with retryAfterSeconds 30 in the details.
C17_Witness ==
    /\ tpc = "returned" /\ ttool.name = "(none)"
    /\ tcaught = Some(RateLimitError("Rate limit exceeded", Num(30)))
    /\ Payload.text.value.error = "Error: Rate limit exceeded (retryable)"
    /\ Payload.text.value.details.retryAfterSeconds = "30"
    /\ Payload.text.value.details.statusCode = "429"


(***************************************************************************)
(* formatResponse on a single object, formatters.ts:33-46, 80-94, 343-379  *)
(***************************************************************************)
\* The line formatObjectAsMarkdown pushes for JSON.stringify(value, null, 2).
JsonLine(value) == [kind |-> "json", cells |-> <<>>, text |-> "{...}", value |-> value]

IsUpperCase(c) == \E i \in 1..Len(UpperCase) : SubSeq(UpperCase, i, i) = c

RECURSIVE spaceBeforeCapitals(_)
\* key.replace(/([A-Z])/g, ' $1')
spaceBeforeCapitals(key) ==
    IF Len(key) = 0 THEN ""
    ELSE (IF IsUpperCase(SubSeq(key, 1, 1)) THEN " " ELSE "")
         \o SubSeq(key, 1, 1) \o spaceBeforeCapitals(SubSeq(key, 2, Len(key)))

RECURSIVE trimStart(_)
trimStart(str) ==
    IF Len(str) > 0 /\ SubSeq(str, 1, 1) = " " THEN trimStart(SubSeq(str, 2, Len(str)))
    ELSE str

\* formatKey, formatters.ts:374-379 (no key ends with a space, so trim() only
\* strips the start)
formatKey(key) == trimStart(capitalize(spaceBeforeCapitals(key)))

\* entityType.replace(/s$/, '')
dropFinalS(entityType) ==
    IF Len(entityType) > 0 /\ SubSeq(entityType, Len(entityType), Len(entityType)) = "s"
    THEN SubSeq(entityType, 1, Len(entityType) - 1)
    ELSE entityType

\* Object.entries of a resource, in the order upstream writes the properties.
ResourceKeys == <<"kind", "id", "snippet", "status", "brandingSettings">>

\* The lines of one entry, formatters.ts:348-359: nothing for an absent value, a
\* fenced JSON block for an object (the fence is three backquotes, shown here
\* as quotes), one line for a scalar.
EntryLines(data, key) ==
    IF key \in {"kind", "id"}
    THEN <<TextLine("**" \o formatKey(key) \o ":** " \o data[key])>>
    ELSE IF ~IsSome(data[key]) THEN <<>>
    ELSE <<TextLine("**" \o formatKey(key) \o ":**"), TextLine("'''json"),
           JsonLine(Get(data[key])), TextLine("'''")>>

RECURSIVE EntriesLines(_, _)
EntriesLines(data, keys) ==
    IF Len(keys) = 0 THEN <<>>
    ELSE EntryLines(data, keys[1]) \o EntriesLines(data, SubSeq(keys, 2, Len(keys)))

\* formatObjectAsMarkdown, formatters.ts:343-362
formatObjectAsMarkdown(data, entityType) ==
    <<TextLine("## " \o capitalize(dropFinalS(entityType))), TextLine("")>>
    \o EntriesLines(data, ResourceKeys)

\* isPaginatedResponse, formatters.ts:99-106
isPaginatedResponse(data) == "items" \in DOMAIN data

\* formatAsMarkdown, formatters.ts:80-94, on the values the tools pass: an
\* envelope or a single resource.
formatAsMarkdown(data, entityType) ==
    IF isPaginatedResponse(data) THEN formatPaginatedAsMarkdown(data, entityType)
    ELSE Returned(Some(formatObjectAsMarkdown(data, entityType)))

\* formatResponse, formatters.ts:33-46: the payload, or what the rendering threw.
formatResponse(data, format, entityType) ==
    IF format = "markdown"
    THEN LET text == formatAsMarkdown(data, entityType) IN
         IF text.ok THEN Returned(Some(ToolResponse(MarkdownText(Get(text.value)), Nothing)))
         ELSE text
    ELSE Returned(Some(ToolResponse(JsonText(data), Nothing)))


(***************************************************************************)
(* SpecTool: one tool invocation, from the handler's call of the client    *)
(* operation to the payload it returns.  The tools modelled cover the      *)
(* handler shapes of the repository: formatResponse on a single resource   *)
(* (youtube_get_video, part_003:321-328), formatResponse on an envelope    *)
(* (youtube_search, search.ts:73-102), a handler with its own not-found    *)
(* payload (youtube_get_channel_by_username, channels.ts:135-149), a       *)
(* literal success payload (youtube_delete_video, part_003:502-515), raw   *)
(* text (youtube_download_caption, playlist-items.ts:387-400),             *)
(* youtube_test_connection (part_001:93-110), the read-then-write updates  *)
(* (youtube_update_video, part_003:459-481; youtube_update_playlist,       *)
(* part_003:189-210), the caption uploads (playlist-items.ts:424-438,      *)
(* 462-476), the search variants and the lists that take a resource        *)
(* selector.  The client has credentials.                                  *)
(***************************************************************************)
Tool(name, id, format, oauth) == [name |-> name, id |-> id, format |-> format, oauth |-> oauth]

\* A tool whose handler takes further arguments: `args` holds them as the caller
\* sent them.
ToolWith(name, id, format, oauth, args) ==
    [name |-> name, id |-> id, format |-> format, oauth |-> oauth, args |-> args]

Formats == {"json", "markdown"}

\* The updates the update tools are called with: none, and a new title.
ToolVideoUpdates ==
    { VideoUpdateInput(t, Nothing, Nothing, Nothing, p, Nothing, Nothing, Nothing, Nothing) :
        t \in {Nothing, Some("New title")}, p \in {Nothing, Some("private")} }

ToolPlaylistUpdates ==
    { PlaylistUpdateInput(t, Nothing, Nothing, Nothing) : t \in {Nothing, Some("New list")} }

\* An optional string argument: omitted, empty, or a value.
ArgumentValues(v) == {Nothing, Some(""), Some(v)}

SearchVariants == {"youtube_search_videos", "youtube_search_channels", "youtube_search_playlists"}

\* The arguments of youtube_list_comment_threads that select the resource.
CommentThreadArgs ==
    { [videoId |-> v, channelId |-> c, allThreadsRelatedToChannelId |-> a] :
        v \in ArgumentValues("v1"), c \in ArgumentValues("UC1"), a \in ArgumentValues("UC2") }

\* The arguments of youtube_list_activities that select the resource.
ActivityArgs ==
    { [mine |-> m, channelId |-> c] :
        m \in {Nothing, Some(FALSE), Some(TRUE)}, c \in ArgumentValues("UC1") }

Tools ==
    { Tool("youtube_get_video", id, f, TRUE) : id \in ResourceIds, f \in Formats }
    \cup { Tool("youtube_search", "query", f, TRUE) : f \in Formats }
    \cup { Tool("youtube_get_channel_by_username", u, f, TRUE) :
             u \in {"someuser", "nosuchuser"}, f \in Formats }
    \cup { Tool("youtube_delete_video", id, "json", TRUE) : id \in ResourceIds }
    \cup { Tool("youtube_download_caption", "cap1", "json", TRUE) }
    \cup { Tool("youtube_test_connection", "", "json", oauth) : oauth \in BOOLEAN }
    \cup { ToolWith("youtube_update_video", "abc123", "json", TRUE, u) : u \in ToolVideoUpdates }
    \cup { ToolWith("youtube_update_playlist", "abc123", "json", TRUE, u) :
             u \in ToolPlaylistUpdates }
    \cup { Tool("youtube_delete_playlist", id, "json", TRUE) : id \in ResourceIds }
    \cup { Tool("youtube_insert_caption", "v1", "json", oauth) : oauth \in BOOLEAN }
    \cup { ToolWith("youtube_update_caption", "cap1", "json", oauth, [captionData |-> d]) :
             oauth \in BOOLEAN, d \in ArgumentValues("WEBVTT") }
    \cup { ToolWith(n, "cats", "json", oauth, [type |-> ty]) :
             n \in SearchVariants, oauth \in BOOLEAN,
             ty \in {Nothing, Some("video"), Some("channel"), Some("playlist")} }
    \cup { ToolWith("youtube_list_comment_threads", "", "json", oauth, a) :
             oauth \in BOOLEAN, a \in CommentThreadArgs }
    \cup { ToolWith("youtube_list_activities", "", "json", oauth, a) :
             oauth \in BOOLEAN, a \in ActivityArgs }

UpdateTools == {"youtube_update_video", "youtube_update_playlist"}
CaptionUploadTools == {"youtube_insert_caption", "youtube_update_caption"}

\* The client the tool server closes over: the worker builds it from the
\* request's headers after validateCredentials has found one of them non-empty
\* (part_001:131-154, env.ts:30-48).
ToolCredentials(t) ==
    IF t.oauth THEN TenantCredentials(Some("ya29.token"), Nothing)
    ELSE TenantCredentials(Nothing, Some("AIza.key"))

\* The client operation of a tool that calls a get-by-id or an update operation.
ToolResourceOperation(t) ==
    CASE t.name = "youtube_get_video" -> ResourceOperation("getVideo", t.id, NoUpdates)
      [] t.name = "youtube_get_channel_by_username" ->
            ResourceOperation("getChannel", t.id, NoUpdates)
      [] t.name = "youtube_update_video" -> ResourceOperation("updateVideo", t.id, t.args)
      [] t.name = "youtube_update_playlist" -> ResourceOperation("updatePlaylist", t.id, t.args)

\* The client operation of a caption upload tool.
ToolCaptionOperation(t) ==
    IF t.name = "youtube_insert_caption" THEN Operation("insertCaption", Some("WEBVTT"))
    ELSE Operation("updateCaption", t.args.captionData)

\* SearchParams as the callers fill it (client.ts:146-169): the query, the type
\* and the page size.
SearchParams(q, type, maxResults) == [q |-> q, type |-> type, maxResults |-> maxResults]

\* `x || 25` on a page size
OrDefaultMaxResults(maxResults) ==
    IF IsSome(maxResults) /\ Get(maxResults) /= 0 THEN Get(maxResults) ELSE DefaultMaxResults

\* search, client.ts:1189-1220, up to its request(): the query parameters.
searchParams(params) ==
    [part |-> Some("snippet"), q |-> Some(params.q), type |-> params.type,
     maxResults |-> Some(ToString(OrDefaultMaxResults(params.maxResults)))]

\* searchVideos, client.ts:415-417: { ...params, type: 'video' }
searchVideosKeepingType(params) ==
    params
searchVideos(params) ==
    [params EXCEPT !.type = Some("video")]

\* What each search variant's handler hands to search(): the handler destructures
\* the arguments its schema names, and `type` is none of them (part_003:403-419,
\* channels.ts:226-236, part_003:272-279).
SearchVariantParams(t) ==
    CASE t.name = "youtube_search_videos" ->
            searchVideos(SearchParams(t.id, Nothing, Some(25)))
      [] t.name = "youtube_search_channels" -> SearchParams(t.id, Some("channel"), Some(25))
      [] t.name = "youtube_search_playlists" -> SearchParams(t.id, Some("playlist"), Some(25))

\* listCommentThreads, client.ts:720-736: the query parameters.
listCommentThreadsUnordered(params) ==
    [part |-> Some("snippet,replies"), maxResults |-> Some(ToString(DefaultMaxResults)),
     videoId |-> IF Truthy(params.videoId) THEN params.videoId ELSE Nothing,
     channelId |-> IF Truthy(params.channelId) THEN params.channelId ELSE Nothing,
     allThreadsRelatedToChannelId |->
        IF Truthy(params.allThreadsRelatedToChannelId)
        THEN params.allThreadsRelatedToChannelId ELSE Nothing]
listCommentThreads(params) ==
    [part |-> Some("snippet,replies"), maxResults |-> Some(ToString(DefaultMaxResults)),
     videoId |-> IF Truthy(params.videoId) THEN params.videoId ELSE Nothing,
     channelId |-> IF ~Truthy(params.videoId) /\ Truthy(params.channelId)
                   THEN params.channelId ELSE Nothing,
     allThreadsRelatedToChannelId |->
        IF /\ ~Truthy(params.videoId) /\ ~Truthy(params.channelId)
           /\ Truthy(params.allThreadsRelatedToChannelId)
        THEN params.allThreadsRelatedToChannelId ELSE Nothing]

\* listActivities, client.ts:1015-1029: the query parameters.
listActivities(params) ==
    [part |-> Some("snippet,contentDetails"),
     maxResults |-> Some(ToString(DefaultMaxResults)),
     mine |-> IF params.mine = Some(TRUE) THEN Some("true") ELSE Nothing,
     channelId |-> IF params.mine /= Some(TRUE) /\ Truthy(params.channelId)
                   THEN params.channelId ELSE Nothing]

\* The probe's request: the caller's own channel with an access token, the video
\* categories otherwise (client.ts:372-380).
probeSend(c) ==
    IF Truthy(c.accessToken)
    THEN requestSend(c, "/channels", "GET", [part |-> Some("id"), mine |-> Some("true")],
                     "none")
    ELSE requestSend(c, "/videoCategories", "GET",
                     [part |-> Some("snippet"), regionCode |-> Some("US")], "none")

\* The first upstream call of the tool's client operation, as FirstCall gives it:
\* the request, or what the operation throws before sending one.
ToolFirstCall(t) ==
    LET c == ToolCredentials(t)
        call(http) == [threw |-> FALSE, http |-> http]
    IN
    CASE t.name \in {"youtube_get_video", "youtube_update_video", "youtube_update_playlist"} ->
            call(FirstResourceCall(ToolResourceOperation(t)))
      [] t.name = "youtube_get_channel_by_username" ->
            requestSend(c, "/channels", "GET",
                        [part |-> Some("snippet,contentDetails,statistics"),
                         forUsername |-> Some(t.id)], "none")
      [] t.name = "youtube_search" ->
            requestSend(c, "/search", "GET",
                        searchParams(SearchParams(t.id, Nothing, Some(25))), "none")
      [] t.name = "youtube_delete_video" ->
            requestSend(c, "/videos", "DELETE", [id |-> Some(t.id)], "none")
      [] t.name = "youtube_delete_playlist" ->
            requestSend(c, "/playlists", "DELETE", [id |-> Some(t.id)], "none")
      [] t.name = "youtube_download_caption" -> downloadSend(c)
      [] t.name = "youtube_test_connection" -> probeSend(c)
      [] t.name \in CaptionUploadTools -> FirstCall(ToolCaptionOperation(t), c)
      [] t.name \in SearchVariants ->
            requestSend(c, "/search", "GET", searchParams(SearchVariantParams(t)), "none")
      [] t.name = "youtube_list_comment_threads" ->
            requestSend(c, "/commentThreads", "GET", listCommentThreads(t.args), "none")
      [] t.name = "youtube_list_activities" ->
            requestSend(c, "/activities", "GET", listActivities(t.args), "none")

\* A search result as upstream writes it, with and without its id object.
SearchResults ==
    { Item("id1", Some("A title"), Nothing, k, Some("Channel"), Nothing) :
        k \in {Nothing, Some("youtube#video")} }

\* Answers to a list call whose page the tool returns as JSON.
PageResponses ==
    { ResourceResponse(200, Some(Json(Nothing, Nothing, items, Nothing, Nothing, Nothing))) :
        items \in {Nothing, Some(<<>>)} \cup { Some(<<r>>) : r \in SearchResults } }
    \cup { ResourceResponse(s, Nothing) : s \in {204, 403, 429} }

\* Answers to a caption upload or metadata update: the caption, a 2xx whose body is
\* not JSON, and failures with and without a JSON body.
CaptionResponses ==
    { ResourceResponse(s, j) :
        s \in {200, 403, 500},
        j \in {Nothing, Some(Json(Nothing, Nothing, Nothing, Nothing, Nothing, Nothing))} }

\* What upstream can answer the tool's first call with.
ToolResponses(t) ==
    CASE t.name \in {"youtube_get_video", "youtube_update_video", "youtube_update_playlist"} ->
            FetchResponses(ToolResourceOperation(t))
      [] t.name = "youtube_get_channel_by_username" ->
            FetchResponses(ResourceOperation("getChannel", t.id, NoUpdates))
      [] t.name = "youtube_search" ->
            { ResourceResponse(200, Some(Json(Nothing, Nothing, items, next, Nothing, Nothing))) :
                items \in {Nothing, Some(<<>>)}
                          \cup { Some(<<r>>) : r \in SearchResults }
                          \cup { Some(<<r, q>>) : r \in SearchResults, q \in SearchResults },
                next \in {Nothing, Some("ABC")} }
            \cup { ResourceResponse(s, Nothing) : s \in {204, 401, 429, 500} }
      [] t.name \in {"youtube_delete_video", "youtube_delete_playlist"} ->
            { ResourceResponse(s, Nothing) : s \in {204, 401, 403, 404, 500} }
      [] t.name = "youtube_download_caption" ->
            { [status |-> s, body |-> Body(text, FALSE, Nothing), retryAfter |-> Nothing] :
                s \in {200, 403, 404}, text \in {"", "0:00:00.000,0:00:02.000 Hello"} }
      [] t.name = "youtube_test_connection" ->
            { ResourceResponse(200, Some(Json(Nothing, Nothing, Some(<<>>), Nothing, Nothing,
                                              Nothing))) }
            \cup { ResourceResponse(s, Nothing) : s \in {401, 403, 429, 500} }
      [] t.name \in CaptionUploadTools -> CaptionResponses
      [] t.name \in SearchVariants
           \cup {"youtube_list_comment_threads", "youtube_list_activities"} -> PageResponses

\* search, client.ts:1189-1220, and listChannelsByUsername, client.ts:521-529:
\* request(), then toPaginatedResponse.
search(r) ==
    LET listed == listSettle(r) IN
    IF listed.ok THEN Returned(Some(toPaginatedResponse(Get(listed.value)))) ELSE listed

listChannelsByUsername(r) ==
    LET listed == listSettle(r) IN
    IF listed.ok THEN Returned(Some(toPaginatedResponse(Get(listed.value)))) ELSE listed

\* listCommentThreads (client.ts:738-741) and listActivities (client.ts:1031-1034)
\* after their request(): toPaginatedResponse.
listPage(r) ==
    LET listed == listSettle(r) IN
    IF listed.ok THEN Returned(Some(toPaginatedResponse(Get(listed.value)))) ELSE listed

\* testConnection, client.ts:370-388, given how its request() ended: it catches
\* whatever request() throws and returns the failure as a value.
testConnectionRethrows(oauth, r) ==
    IF r.ok
    THEN Returned(Some([connected |-> TRUE,
                        message |-> IF oauth
                                    THEN "Successfully connected to YouTube API (OAuth)"
                                    ELSE "Successfully connected to YouTube API (API Key)"]))
    ELSE r
testConnection(oauth, r) ==
    IF r.ok
    THEN Returned(Some([connected |-> TRUE,
                        message |-> IF oauth
                                    THEN "Successfully connected to YouTube API (OAuth)"
                                    ELSE "Successfully connected to YouTube API (API Key)"]))
    ELSE Returned(Some([connected |-> FALSE,
                        message |-> IF IsError(r.error) THEN r.error.message
                                    ELSE "Connection failed"]))

\* The second call of the tool's client operation, if its first call's answer
\* leads to one: the PUT of an update.
ToolSecondCall(t, resp) ==
    IF t.name \in UpdateTools
    THEN SecondCall(ToolResourceOperation(t), GetById(ToolResourceOperation(t), resp))
    ELSE Nothing

\* How the tool's client operation ends when upstream answers its first call with
\* resp and no second call follows.
ClientSettles(t, resp) ==
    CASE t.name = "youtube_get_video" -> getVideo(t.id, resp)
      [] t.name = "youtube_get_channel_by_username" -> listChannelsByUsername(requestSettle(resp))
      [] t.name = "youtube_search" -> search(requestSettle(resp))
      [] t.name = "youtube_delete_video" -> Settle(Operation("deleteVideo", Nothing), resp)
      [] t.name = "youtube_delete_playlist" ->
            IF requestSettle(resp).ok THEN Returned(Nothing) ELSE requestSettle(resp)
      [] t.name = "youtube_download_caption" -> downloadSettle(resp)
      [] t.name = "youtube_test_connection" -> testConnection(t.oauth, requestSettle(resp))
      [] t.name \in UpdateTools ->
            LET current == GetById(ToolResourceOperation(t), resp) IN
            IF current.ok THEN Thrown(UndefinedTypeError) ELSE current
      [] t.name \in CaptionUploadTools -> Settle(ToolCaptionOperation(t), resp)
      [] t.name \in SearchVariants -> search(requestSettle(resp))
      [] t.name \in {"youtube_list_comment_threads", "youtube_list_activities"} ->
            listPage(requestSettle(resp))

\* How an update ends when its PUT is answered: `return this.request(...)`
\* (client.ts:441-446, 634-638), whatever the read returned.
updateReturnsReadOnFailure(current, resp) ==
    IF requestSettle(resp).ok THEN requestSettle(resp) ELSE current
updateReturns(current, resp) ==
    requestSettle(resp)

\* How it ends when fetch() rejects.
ClientRejects(t) ==
    IF t.name = "youtube_test_connection" THEN testConnection(t.oauth, Thrown(FetchTypeError))
    ELSE Thrown(FetchTypeError)

\* A literal success payload: JSON.stringify({ success: true, message, [key]: value }).
SuccessPayload(message, key, value) ==
    Returned(Some(ToolResponse(
        JsonText([success |-> TRUE, message |-> message] @@ (key :> value)), Nothing)))

\* The handler's try block after `await client.<operation>(...)`: the payload it
\* returns, or what it throws.
TryBlock(t, outcome) ==
    IF ~outcome.ok THEN outcome
    ELSE CASE t.name = "youtube_get_video" ->
                formatResponse(Get(outcome.value), t.format, "video")
           [] t.name = "youtube_search" ->
                formatResponse(Get(outcome.value), t.format, "searchResults")
           [] t.name = "youtube_get_channel_by_username" ->
                LET found == Get(outcome.value) IN
                IF Len(found.items) = 0
                THEN Returned(Some(ToolResponse(
                         JsonText([error |-> "Channel not found for username: " \o t.id]),
                         Some(TRUE))))
                ELSE formatResponse(found.items[1], t.format, "channel")
           [] t.name = "youtube_delete_video" ->
                Returned(Some(ToolResponse(
                    JsonText([success |-> TRUE, message |-> "Video " \o t.id \o " deleted"]),
                    Nothing)))
           [] t.name = "youtube_delete_playlist" ->
                Returned(Some(ToolResponse(
                    JsonText([success |-> TRUE, message |-> "Playlist " \o t.id \o " deleted"]),
                    Nothing)))
           [] t.name = "youtube_download_caption" ->
                Returned(Some(ToolResponse(PlainText(Get(outcome.value)), Nothing)))
           [] t.name = "youtube_test_connection" ->
                Returned(Some(ToolResponse(JsonText(Get(outcome.value)), Nothing)))
           [] t.name = "youtube_update_video" ->
                SuccessPayload("Video updated", "video", outcome.value)
           [] t.name = "youtube_update_playlist" ->
                SuccessPayload("Playlist updated", "playlist", outcome.value)
           [] t.name = "youtube_insert_caption" ->
                SuccessPayload("Caption track created", "caption", outcome.value)
           [] t.name = "youtube_update_caption" ->
                SuccessPayload("Caption track updated", "caption", outcome.value)
           [] t.name \in SearchVariants ->
                formatResponse(Get(outcome.value), t.format, "searchResults")
           [] t.name = "youtube_list_comment_threads" ->
                formatResponse(Get(outcome.value), t.format, "commentThreads")
           [] t.name = "youtube_list_activities" ->
                formatResponse(Get(outcome.value), t.format, "activities")

\* The handler's catch block.
CatchBlock(t, error) ==
    IF t.name = "youtube_test_connection"
    THEN ToolResponse(PlainText("Connection failed: "
                                \o (IF IsError(error) THEN error.message ELSE "Unknown error")),
                      Some(TRUE))
    ELSE formatError(error)

\* The handler: try { ... } catch (error) { ... }
ToolHandlerWithoutCatch(t, outcome) ==
    TryBlock(t, outcome)
ToolHandler(t, outcome) ==
    LET body == TryBlock(t, outcome) IN
    IF body.ok THEN body ELSE Returned(Some(CatchBlock(t, body.error)))

NoTool == [name |-> "(none)"]

InitTool ==
    /\ tpc = "start"
    /\ ttool = NoTool
    /\ toutcome = Nothing
    /\ tcaught = Nothing
    /\ tresult = Nothing
    /\ tcalls = <<>>
    /\ tresps = <<>>
    /\ ClientIdle
    /\ WorkerIdle
    /\ ListIdle
    /\ ResourceIdle
    /\ FormatIdle

\* The client operation ended with outcome; the handler runs to its return.
ToolReturns(t, outcome) ==
    /\ toutcome' = Some(outcome)
    /\ tcaught' = (IF TryBlock(t, outcome).ok THEN Nothing
                   ELSE Some(TryBlock(t, outcome).error))
    /\ tresult' = Some(ToolHandler(t, outcome))
    /\ tpc' = "returned"
    /\ UNCHANGED <<clientVars, workerVars, listVars, resourceVars, formatVars>>

\* The dispatch layer calls the tool's handler, which runs its client operation to
\* the await of its first upstream call, or to the throw that precedes it.
ToolInvoke(t) ==
    /\ tpc = "start"
    /\ ttool' = t
    /\ tresps' = tresps
    /\ LET first == ToolFirstCall(t) IN
       IF first.threw
       THEN /\ tcalls' = tcalls
            /\ ToolReturns(t, IF t.name = "youtube_test_connection"
                              THEN testConnection(t.oauth, Thrown(first.error))
                              ELSE Thrown(first.error))
       ELSE /\ tcalls' = <<first.http>>
            /\ tpc' = "awaiting"
            /\ UNCHANGED <<toutcome, tcaught, tresult>>
            /\ UNCHANGED <<clientVars, workerVars, listVars, resourceVars, formatVars>>

\* Upstream answers the first call: the operation issues its second call, or
\* ends and the handler returns.
ToolUpstreamAnswers(resp) ==
    /\ tpc = "awaiting"
    /\ resp \in ToolResponses(ttool)
    /\ tresps' = Append(tresps, resp)
    /\ UNCHANGED ttool
    /\ LET next == ToolSecondCall(ttool, resp) IN
       IF IsSome(next)
       THEN /\ tcalls' = Append(tcalls, Get(next))
            /\ tpc' = "awaitingPut"
            /\ UNCHANGED <<toutcome, tcaught, tresult>>
            /\ UNCHANGED <<clientVars, workerVars, listVars, resourceVars, formatVars>>
       ELSE /\ tcalls' = tcalls
            /\ ToolReturns(ttool, ClientSettles(ttool, resp))

\* Upstream answers the PUT of an update: the operation ends with the PUT's
\* outcome and the handler returns.
ToolPutAnswered(resp) ==
    /\ tpc = "awaitingPut"
    /\ resp \in PutResponses(ToolResourceOperation(ttool))
    /\ tresps' = Append(tresps, resp)
    /\ UNCHANGED <<ttool, tcalls>>
    /\ ToolReturns(ttool, updateReturns(GetById(ToolResourceOperation(ttool), tresps[1]), resp))

\* The awaited call fails at the network level.
ToolUpstreamRejects ==
    /\ tpc \in {"awaiting", "awaitingPut"}
    /\ UNCHANGED <<ttool, tcalls, tresps>>
    /\ ToolReturns(ttool, ClientRejects(ttool))

AllToolResponses == UNION { ToolResponses(t) : t \in Tools }

AllPutResponses ==
    UNION { PutResponses(ToolResourceOperation(t)) : t \in { u \in Tools : u.name \in UpdateTools } }

NextTool ==
    \/ \E t \in Tools : ToolInvoke(t)
    \/ \E resp \in AllToolResponses : ToolUpstreamAnswers(resp)
    \/ \E resp \in AllPutResponses : ToolPutAnswered(resp)
    \/ ToolUpstreamRejects

SpecTool == InitTool /\ [][NextTool]_vars


(***************************************************************************)
(* Claims about the tool handlers (checked under SpecTool)                 *)
(***************************************************************************)
ToolNames == { t.name : t \in Tools }

\* The handler has returned to the dispatch layer or thrown into it.
ToolEnded == tpc = "returned" /\ ttool.name \in ToolNames

\* The client operation threw, or the try block threw after it (the formatting
\* of its result).
SomethingThrown == ~Get(toutcome).ok \/ IsSome(tcaught)

\* C15: every tool invocation ends with exactly one response payload: whatever
\* the client operation or the formatting of its result throws is caught and
\* returned as a payload with isError set, no exception propagates to the
\* dispatch layer, and a payload without isError is returned only when nothing
\* was thrown.
C15_HandlerAlwaysReturnsPayload ==
    ToolEnded =>
        /\ IsSome(tresult)
        /\ Get(tresult).ok
        /\ IsSome(Get(tresult).value)
        /\ SomethingThrown => Payload.isError = Some(TRUE)
        /\ Payload.isError = Nothing => ~SomethingThrown

\* Reached: youtube_search in Markdown, the search returned a result without an
\* id object, the table formatter threw a TypeError, and the handler returned it
\* as an error payload.
C15_Witness ==
    /\ ToolEnded
    /\ ttool.name = "youtube_search" /\ ttool.format = "markdown"
    /\ Get(toutcome).ok
    /\ tcaught = Some(UndefinedTypeError)
    /\ Get(tresult).ok
    /\ Payload.isError = Some(TRUE)
    /\ Payload.text.value.error = "Error: Cannot read properties of undefined"

\* C16: every failure payload returned by any tool has the structured form of the
\* error formatter: isError set and a JSON body with an error message prefixed
\* "Error:" and a details object.
C16_FailurePayloadIsStructured ==
    (ToolEnded /\ Get(tresult).ok /\ Payload.isError = Some(TRUE)) =>
        /\ Payload.text.kind = "json"
        /\ "error" \in DOMAIN Payload.text.value
        /\ Len(Payload.text.value.error) >= 6
        /\ SubSeq(Payload.text.value.error, 1, 6) = "Error:"
        /\ "details" \in DOMAIN Payload.text.value


(***************************************************************************)
(* SpecConnection: testConnection (client.ts:370-388) on a client built    *)
(* from any credentials, those with neither a token nor a key included.    *)
(***************************************************************************)
InitConnection ==
    /\ credentials \in AllCredentials
    /\ op = NoOperation
    /\ pc = "ready"
    /\ sent = <<>>
    /\ response = Nothing
    /\ result = NoResult
    /\ WorkerIdle
    /\ ListIdle
    /\ LaterIdle

\* The caller invokes testConnection; it runs to the await of its probe, or to
\* its return when request() throws before the fetch.
ConnectionInvoke ==
    /\ pc = "ready"
    /\ op' = Operation("testConnection", Nothing)
    /\ LET first == probeSend(credentials) IN
       IF first.threw
       THEN /\ result' = testConnection(Truthy(credentials.accessToken), Thrown(first.error))
            /\ pc' = "done"
            /\ sent' = sent
       ELSE /\ sent' = Append(sent, first.http)
            /\ pc' = "awaiting"
            /\ result' = result
    /\ UNCHANGED <<credentials, response>>
    /\ UNCHANGED <<workerVars, listVars, resourceVars, toolVars, formatVars>>

\* The probe is answered.
ProbeResolves(resp) ==
    /\ pc = "awaiting"
    /\ op.name = "testConnection"
    /\ response' = Some(resp)
    /\ result' = testConnection(Truthy(credentials.accessToken), requestSettle(resp))
    /\ pc' = "done"
    /\ UNCHANGED <<credentials, op, sent>>
    /\ UNCHANGED <<workerVars, listVars, resourceVars, toolVars, formatVars>>

\* The probe's fetch rejects.
ProbeRejects ==
    /\ pc = "awaiting"
    /\ op.name = "testConnection"
    /\ result' = testConnection(Truthy(credentials.accessToken), Thrown(FetchTypeError))
    /\ pc' = "done"
    /\ UNCHANGED <<credentials, op, sent, response>>
    /\ UNCHANGED <<workerVars, listVars, resourceVars, toolVars, formatVars>>

NextConnection ==
    \/ ConnectionInvoke
    \/ \E resp \in Responses : ProbeResolves(resp)
    \/ ProbeRejects

SpecConnection == InitConnection /\ [][NextConnection]_vars

\* How the probe ended: request() threw before the fetch, the fetch rejected, or
\* request() settled the answer.
ProbeOutcome ==
    IF sent = <<>> THEN Thrown(getAuthParams(credentials).error)
    ELSE IF ~IsSome(response) THEN Thrown(FetchTypeError)
    ELSE requestSettle(Get(response))

\* C28: testConnection never fails: it issues at most one upstream probe (the
\* caller's own channel when an access token is present, otherwise the video
\* categories), returns connected=true if and only if that probe succeeded, and
\* in every other case, absent credentials included, returns connected=false
\* with the failure's message.
C28_TestConnectionNeverFails ==
    op.name = "testConnection" =>
        /\ Len(sent) <= 1
        /\ \A i \in 1..Len(sent) :
              /\ sent[i].method = "GET"
              /\ IF Truthy(credentials.accessToken)
                 THEN /\ sent[i].url = API_BASE_URL \o "/channels"
                      /\ sent[i].params = [part |-> "id", mine |-> "true"]
                 ELSE /\ sent[i].url = API_BASE_URL \o "/videoCategories"
                      /\ "mine" \notin DOMAIN sent[i].params
        /\ pc = "done" =>
              /\ result.ok
              /\ IsSome(result.value)
              /\ Get(result.value).connected <=> ProbeOutcome.ok
              /\ ~ProbeOutcome.ok =>
                    Get(result.value).message = ProbeOutcome.error.message

\* Reached: on a client with neither a token nor a key testConnection has returned
\* connected=false with the authentication failure's message and sent nothing.
C28_Witness ==
    /\ op.name = "testConnection" /\ pc = "done"
    /\ credentials = TenantCredentials(Nothing, Nothing)
    /\ sent = <<>>
    /\ result.ok
    /\ Get(result.value).connected = FALSE
    /\ Get(result.value).message =
          "No credentials provided. Include X-YouTube-Access-Token or X-YouTube-API-Key header."


\* The keys an item has, in the order upstream writes them.
KeysOf(item) ==
    <<"id">> \o SelectSeq(<<"title", "textDisplay", "idKind", "channelTitle", "count">>,
                          LAMBDA k : item[k] /= Nothing)

\* The item has the key.
HasKey(item, k) == \E i \in 1..Len(KeysOf(item)) : KeysOf(item)[i] = k

\* C27: for an entity type with no dedicated table layout, the table's columns are
\* the first five keys of the first item, every row has exactly one cell per
\* column, showing the item's value or "-" where the item lacks that key, and a
\* key that only later items have is no column.
C27_GenericTableColumns ==
    (fpc = "rendered" /\ fentityType \notin TypedTables /\ Len(Get(fdata).items) > 0) =>
        LET items == Get(fdata).items
            first == KeysOf(items[1])
            columns == SubSeq(first, 1, IF Len(first) < 5 THEN Len(first) ELSE 5)
            header == Len(RenderedLines) - Len(items) - 1
        IN
        /\ Get(fout).ok
        /\ header >= 1
        /\ RenderedLines[header].kind = "header"
        /\ RenderedLines[header].cells = columns
        /\ RenderedLines[header + 1].kind = "separator"
        /\ Len(RenderedLines[header + 1].cells) = Len(columns)
        /\ \A i \in 1..Len(items) :
              LET row == RenderedLines[header + 1 + i] IN
              /\ row.kind = "row"
              /\ Len(row.cells) = Len(columns)
              /\ \A k \in 1..Len(columns) :
                    row.cells[k] =
                       IF columns[k] = "id" THEN items[i].id
                       ELSE IF HasKey(items[i], columns[k]) THEN Get(items[i][columns[k]])
                       ELSE "-"
        /\ \A k \in 1..Len(columns) : HasKey(items[1], columns[k])

\* Reached: a page of captions whose first item has no title and whose second item
\* has a title but no channel title is rendered with the columns of the first
\* item alone, the second row showing "-" for the channel title.
C27_Witness ==
    /\ fpc = "rendered" /\ fentityType = "captions"
    /\ Len(Get(fdata).items) = 2
    /\ ~HasKey(Get(fdata).items[1], "title") /\ HasKey(Get(fdata).items[2], "title")
    /\ Get(fout).ok
    /\ RenderedLines[Len(RenderedLines) - 3].cells = <<"id", "idKind", "channelTitle">>
    /\ RenderedLines[Len(RenderedLines)].cells = <<"id2", "youtube#channel", "-">>



(***************************************************************************)
(* Claims about the upstream calls of a tool invocation (under SpecTool)   *)
(***************************************************************************)
\* The read of an update tool's operation returned the resource.
ReadSucceeded ==
    /\ Len(tresps) >= 1
    /\ GetById(ToolResourceOperation(ttool), tresps[1]).ok

\* The PUT was issued and failed: a non-2xx answer, or no answer at all.
WriteFailed ==
    /\ Len(tcalls) = 2
    /\ tcalls[2].method = "PUT"
    /\ Len(tresps) = 1 \/ ~Is2xx(tresps[2].status)

\* What request() threw for the failed PUT.
WriteError ==
    IF Len(tresps) = 2 THEN requestSettle(tresps[2]).error ELSE FetchTypeError

\* C22: in a read-then-write update (updateVideo, updatePlaylist) whose read
\* succeeds and whose write fails, the operation's outcome is exactly the write's
\* error, nothing of the read result is returned, and the tool's payload is the
\* formatted write error.
C22_WriteErrorSurfaced ==
    (ToolEnded /\ ttool.name \in UpdateTools /\ ReadSucceeded /\ WriteFailed) =>
        /\ Get(toutcome) = Thrown(WriteError)
        /\ tcaught = Some(WriteError)
        /\ Get(tresult) = Returned(Some(formatError(WriteError)))
        /\ Payload.isError = Some(TRUE)
        /\ DOMAIN Payload.text.value = {"error", "details"}

\* Reached: youtube_update_video read the video with its snippet and status, the
\* PUT was answered 403, and the handler returned the forbidden error's payload.
C22_Witness ==
    /\ ToolEnded /\ ttool.name = "youtube_update_video"
    /\ ReadSucceeded /\ WriteFailed
    /\ IsSome(Get(GetById(ToolResourceOperation(ttool), tresps[1]).value).status)
    /\ Len(tresps) = 2 /\ tresps[2].status = 403
    /\ ~Get(toutcome).ok
    /\ Get(toutcome).error.statusCode = Some(403)
    /\ Payload.isError = Some(TRUE)

\* The payload reports success: a JSON body with success: true or connected: true.
ReportsSuccess ==
    /\ ToolEnded
    /\ Get(tresult).ok
    /\ Payload.text.kind = "json"
    /\ \/ "success" \in DOMAIN Payload.text.value /\ Payload.text.value.success = TRUE
       \/ "connected" \in DOMAIN Payload.text.value /\ Payload.text.value.connected = TRUE

\* C24: a tool returns a payload reporting success (success: true, or connected:
\* true for the connection test) only if every upstream call issued for that
\* invocation was answered with a 2xx status.
C24_SuccessOnlyAfter2xx ==
    ReportsSuccess =>
        /\ Len(tresps) = Len(tcalls)
        /\ \A i \in 1..Len(tcalls) : Is2xx(tresps[i].status)

\* Reached: youtube_update_playlist reported success after its GET and its PUT
\* were both answered 200.
C24_Witness ==
    /\ ReportsSuccess
    /\ ttool.name = "youtube_update_playlist"
    /\ Len(tcalls) = 2 /\ Len(tresps) = 2
    /\ tresps[1].status = 200 /\ tresps[2].status = 200
    /\ Payload.text.value.message = "Playlist updated"
    /\ IsSome(Payload.text.value.playlist)


\* The caller supplied the optional string argument: it is there and not empty
\* (the code tests the argument's truthiness).
Supplied(argument) == argument /= Nothing /\ argument /= Some("")

\* C25: insertCaption and updateCaption each issue exactly one upstream call.
\* insertCaption always, and updateCaption whenever the caller supplies new
\* caption data (a non-empty text), send a multipart form to the upload endpoint;
\* updateCaption without new caption data sends a JSON PUT to the standard
\* captions endpoint.
C25_CaptionUploadOneCall ==
    ttool.name \in CaptionUploadTools =>
        /\ Len(tcalls) = 1
        /\ IF ttool.name = "youtube_insert_caption"
           THEN /\ tcalls[1].url = UPLOAD_URL
                /\ tcalls[1].method = "POST"
                /\ tcalls[1].body = "FormData"
           ELSE IF Supplied(ttool.args.captionData)
           THEN /\ tcalls[1].url = UPLOAD_URL
                /\ tcalls[1].method = "PUT"
                /\ tcalls[1].body = "FormData"
           ELSE /\ tcalls[1].url = API_BASE_URL \o "/captions"
                /\ tcalls[1].method = "PUT"
                /\ tcalls[1].body = "json"
                /\ tcalls[1].ContentType = Some("application/json")

\* Reached: youtube_update_caption without caption data has ended with its success
\* payload after one JSON PUT to the captions endpoint.
C25_Witness ==
    /\ ToolEnded /\ ttool.name = "youtube_update_caption"
    /\ ttool.args.captionData = Nothing
    /\ Len(tcalls) = 1
    /\ tcalls[1].url = "https://www.googleapis.com/youtube/v3/captions"
    /\ tcalls[1].body = "json"
    /\ Len(tresps) = 1 /\ tresps[1].status = 200
    /\ Get(toutcome).ok
    /\ Payload.text.value.message = "Caption track updated"

\* The type a search variant searches for.
OwnType(name) ==
    CASE name = "youtube_search_videos" -> "video"
      [] name = "youtube_search_channels" -> "channel"
      [] name = "youtube_search_playlists" -> "playlist"

\* C26: the video, channel and playlist search variants each issue exactly one
\* call to the generic search endpoint with the type filter fixed to their own
\* type, whatever type the caller's arguments carry.
C26_SearchVariantsFixType ==
    ttool.name \in SearchVariants =>
        /\ Len(tcalls) = 1
        /\ tcalls[1].url = API_BASE_URL \o "/search"
        /\ tcalls[1].method = "GET"
        /\ "type" \in DOMAIN tcalls[1].params
        /\ tcalls[1].params.type = OwnType(ttool.name)

\* Reached: youtube_search_videos called with type "channel" among its arguments
\* has ended after one search call with type "video".
C26_Witness ==
    /\ ToolEnded /\ ttool.name = "youtube_search_videos"
    /\ ttool.args.type = Some("channel")
    /\ Len(tcalls) = 1
    /\ tcalls[1].params.type = "video"
    /\ tcalls[1].params.q = "cats"
    /\ Len(tresps) = 1 /\ Get(toutcome).ok

\* The resource selectors among the query parameters of the call.
SelectorsSent(names) == DOMAIN tcalls[1].params \cap names

\* C29: a list request carries at most one resource selector.  listCommentThreads
\* sends exactly the first supplied of videoId, channelId and
\* allThreadsRelatedToChannelId (in that order) and none of the others;
\* listActivities sends mine=true when mine is set, otherwise channelId when it
\* is supplied, never both.  A selector is supplied when it is a non-empty text.
C29_AtMostOneSelector ==
    /\ ttool.name = "youtube_list_comment_threads" =>
          LET sel == SelectorsSent({"videoId", "channelId", "allThreadsRelatedToChannelId"})
              args == ttool.args
          IN
          /\ Len(tcalls) = 1
          /\ Cardinality(sel) <= 1
          /\ IF Supplied(args.videoId)
             THEN sel = {"videoId"} /\ tcalls[1].params.videoId = args.videoId[1]
             ELSE IF Supplied(args.channelId)
             THEN sel = {"channelId"} /\ tcalls[1].params.channelId = args.channelId[1]
             ELSE IF Supplied(args.allThreadsRelatedToChannelId)
             THEN /\ sel = {"allThreadsRelatedToChannelId"}
                  /\ tcalls[1].params.allThreadsRelatedToChannelId =
                        args.allThreadsRelatedToChannelId[1]
             ELSE sel = {}
    /\ ttool.name = "youtube_list_activities" =>
          LET sel == SelectorsSent({"mine", "channelId"})
              args == ttool.args
          IN
          /\ Len(tcalls) = 1
          /\ Cardinality(sel) <= 1
          /\ IF args.mine = Some(TRUE)
             THEN sel = {"mine"} /\ tcalls[1].params.mine = "true"
             ELSE IF Supplied(args.channelId)
             THEN sel = {"channelId"} /\ tcalls[1].params.channelId = args.channelId[1]
             ELSE sel = {}

\* Reached: youtube_list_comment_threads called with all three selectors has ended
\* after one call that carries the video id alone.
C29_Witness ==
    /\ ToolEnded /\ ttool.name = "youtube_list_comment_threads"
    /\ ttool.args = [videoId |-> Some("v1"), channelId |-> Some("UC1"),
                     allThreadsRelatedToChannelId |-> Some("UC2")]
    /\ Len(tcalls) = 1
    /\ tcalls[1].url = "https://www.googleapis.com/youtube/v3/commentThreads"
    /\ tcalls[1].params =
          [part |-> "snippet,replies", maxResults |-> "25", videoId |-> "v1"]

====
